---- MODULE Spec2Model ----
(***************************************************************************)
(* The transcription request pipeline of Whisper-Dictation:                *)
(*   POST /api/transcribe -> multer upload -> TranscriptionController      *)
(*   -> validateAudioFile -> GroqWhisperService.transcribe                 *)
(*   -> callApiWithRetry -> callApi -> fetch (upstream Groq endpoint)      *)
(*   -> errorHandler.                                                      *)
(*                                                                         *)
(* Three specifications share the definitions translated from the code:    *)
(*   Spec        - requests through the whole pipeline, one after another; *)
(*   ServiceSpec - concurrent transcribe invocations on the one service;   *)
(*   UnitSpec    - single calls of the pure functions on drawn arguments;  *)
(*   FairSpec    - Spec with the event loop's timers fair;                 *)
(*   HookSpec    - the browser's useAudioRecorder hook under any calls;    *)
(*   AppSpec     - the browser app: clicks, recorder callbacks, effects.   *)
(*                                                                         *)
(* Representation of JavaScript values:                                    *)
(*   - an optional value (T | undefined) is a sequence of length 0 or 1;   *)
(*   - a string that the code only compares, splits or concatenates is a   *)
(*     sequence of tokens: a message is a sequence of words, a MIME type   *)
(*     the sequence of its ';'-separated parts, a filename the sequence    *)
(*     of its '.'-separated segments;                                      *)
(*   - an exception is a record whose cls field is its class (instanceof)  *)
(*     and whose name field is its .name;                                  *)
(*   - wall-clock values (processingTimeMs, timestamp) are not modelled;   *)
(*     a timer is modelled by what it was armed with, and fires by an      *)
(*     action of its own.                                                  *)
(***************************************************************************)
EXTENDS Integers, Sequences, FiniteSets, TLC

VARIABLES
    served,        \* number of POST /api/transcribe requests received so far
    httpRequest,   \* the current POST /api/transcribe request (<<>>: none yet)
    request,       \* the TranscriptionRequest of the current invocation (<<>>: none)
    requestId,     \* uuidv4() of the current invocation (0: none)
    pc,            \* where the invocation is suspended
    attempt,       \* callApiWithRetry's attempt parameter
    status,        \* response.status of the attempt whose body is being read (0: none)
    timeoutTimer,  \* attempt whose setTimeout(abort) is pending (0: none)
    delayTimer,    \* ms of the pending backoff setTimeout (0: none)
    inflight,      \* outbound HTTP calls issued and not yet settled
    outbound,      \* the payloads of the HTTP calls issued by this invocation
    settled,       \* the attempts that ended, in order: how, and what callApi
                   \* threw or returned
    waits,         \* the backoff delays that have elapsed, in order
    started,       \* the backoff delays that were started, in order
    delivered,     \* what transcribe handed to its caller (results and errors)
    httpResponse,  \* what the API answered to the browser (<<>>: nothing yet)
    \* Concurrent invocations of the one service instance (ServiceSpec):
    serviceInstance, \* number of GroqWhisperService objects constructed
    nextId,        \* the next identifier uuidv4() hands out
    calls,         \* caller -> the locals of its transcribe invocation
    \* One call of a function of utils/audio.ts, of the error taxonomy or of
    \* the retry loop's decision (UnitSpec):
    input,         \* the arguments drawn
    output,        \* <<>> before the call, <<what it returned>> after it
    \* The browser app (HookSpec, AppSpec):
    hook,          \* useAudioRecorder: its state, its refs, and the browser
                   \* objects it acquired (streams, recorders, timers, frames)
    app            \* App: its state, processingBlobRef, requests in flight

pipelineVars ==
    <<served, httpRequest, request, requestId, pc, attempt, status, timeoutTimer, delayTimer,
      inflight, outbound, settled, waits, started, delivered,
      httpResponse>>

serviceVars == <<serviceInstance, nextId, calls>>

unitVars == <<input, output>>

vars == <<pipelineVars, serviceVars, unitVars, hook, app>>

\* ---------------------------------------------------------------- bounds
MaxRequests == 2

\* ------------------------------------------------------- program constants
MAX_RETRIES == 3
RETRY_DELAY_MS == 1000
RETRY_BACKOFF_MULTIPLIER == 2
AUDIO_TIMEOUT_MS == 60000
MAX_AUDIO_SIZE_MB == 25
MIN_FILE_SIZE == 4096
WHISPER_MODEL == "whisper-large-v3"

maxFileSizeBytes == MAX_AUDIO_SIZE_MB * 1024 * 1024
timeoutMs == AUDIO_TIMEOUT_MS

\* ------------------------------------------------------- string helpers
RECURSIVE Pow(_, _)
Pow(b, e) == IF e = 0 THEN 1 ELSE b * Pow(b, e - 1)

\* String.prototype.toLowerCase on the tokens the model uses.
toLowerCase(s) ==
    CASE s = "audio/WAV" -> "audio/wav"
      [] s = "MP3" -> "mp3"
      [] s = "Clip" -> "clip"
      [] s = "EN" -> "en"
      [] OTHER -> s

\* String.prototype.trim on the tokens the model uses.
trim(s) ==
    CASE s = "audio/ogg " -> "audio/ogg"
      [] s = " en " -> "en"
      [] s = " " -> ""
      [] OTHER -> s

\* String.prototype.startsWith('audio/') on the MIME tokens the model uses.
startsWithAudio(s) ==
    s \in {"audio/webm", "audio/x-m4a", "audio/aac", "audio/WAV", "audio/ogg ",
           "audio/mpeg", "audio/wav", "audio/ogg", "audio/mp4", "audio/flac"}

\* A message (a sequence of words) with its surrounding whitespace words removed.
RECURSIVE trimWords(_)
trimWords(w) ==
    IF w = <<>> THEN w
    ELSE IF Head(w) = " " THEN trimWords(Tail(w))
    ELSE IF w[Len(w)] = " " THEN trimWords(SubSeq(w, 1, Len(w) - 1))
    ELSE w

\* String.prototype.includes(code) for a message that is a sequence of words.
includes(message, code) == \E i \in 1..Len(message) : message[i] = code

\* { ...a, ...b }: the keys of b override those of a.
Spread(a, b) ==
    [k \in (DOMAIN a) \cup (DOMAIN b) |-> IF k \in DOMAIN b THEN b[k] ELSE a[k]]

\* ---------------------------------------------------------- utils/audio.ts
SUPPORTED_AUDIO_FORMATS ==
    {"flac", "mp3", "mp4", "mpeg", "mpga", "ogg", "wav", "webm"}

\* A lookup table is an object literal: table[key] also finds the properties
\* every object inherits from Object.prototype. These are the all-lowercase
\* ones, with the value the lookup returns (a function, an object).
inherited(key) ==
    CASE key = "constructor" -> <<"[Function: Object]">>
      [] key = "__proto__" -> <<"[Object: null prototype] {}">>
      [] OTHER -> <<>>

\* MIME_TYPE_MAP[m] ?? null
MIME_TYPE_MAP(m) ==
    CASE m \in {"audio/flac", "audio/x-flac"} -> <<"flac">>
      [] m \in {"audio/mp3", "audio/mpeg"} -> <<"mp3">>
      [] m \in {"audio/mp4", "audio/m4a", "audio/x-m4a"} -> <<"mp4">>
      [] m \in {"audio/ogg", "audio/vorbis"} -> <<"ogg">>
      [] m \in {"audio/wav", "audio/wave", "audio/x-wav"} -> <<"wav">>
      [] m \in {"audio/webm", "video/webm"} -> <<"webm">>
      [] OTHER -> inherited(m)

\* EXTENSION_MAP['.' + e] ?? null (no inherited property starts with a dot)
EXTENSION_MAP(e) ==
    CASE e = "flac" -> <<"flac">>
      [] e = "mp3" -> <<"mp3">>
      [] e \in {"mp4", "m4a"} -> <<"mp4">>
      [] e = "mpeg" -> <<"mpeg">>
      [] e = "mpga" -> <<"mpga">>
      [] e \in {"ogg", "oga", "opus"} -> <<"ogg">>
      [] e \in {"wav", "wave"} -> <<"wav">>
      [] e = "webm" -> <<"webm">>
      [] OTHER -> <<>>

\* mimeType.toLowerCase().split(';')[0]?.trim(), then the table.
getFormatFromMimeType(mimeType) ==
    LET normalizedMime == trim(toLowerCase(Head(mimeType)))
    IN  IF normalizedMime = "" THEN <<>> ELSE MIME_TYPE_MAP(normalizedMime)

\* filename.toLowerCase().match(/\.[^.]+$/): a last segment that follows a dot
\* and is not empty.
hasExtension(filename) == Len(filename) >= 2 /\ filename[Len(filename)] # ""

getFormatFromFilename(filename) ==
    IF ~hasExtension(filename) THEN <<>>
    ELSE EXTENSION_MAP(toLowerCase(filename[Len(filename)]))

detectAudioFormat(mimeType, filename) ==
    LET format == getFormatFromMimeType(mimeType)
    IN  IF format = <<>> THEN getFormatFromFilename(filename) ELSE format

\* validateAudioFile: the buffer is known by its length.
\* Variants: the format is checked before the size; the size limit is
\* exclusive.
validateAudioFileFormatFirst(bufferLength, mimeType, filename, maxSizeBytes) ==
    LET format == detectAudioFormat(mimeType, filename)
    IN  IF format = <<>>
        THEN [valid |-> FALSE,
              error |-> <<"Unsupported", "audio format">>, format |-> <<>>]
        ELSE IF bufferLength = 0
        THEN [valid |-> FALSE, error |-> <<"Audio file is empty">>, format |-> <<>>]
        ELSE IF bufferLength > maxSizeBytes
        THEN [valid |-> FALSE, error |-> <<"File size", "exceeds maximum">>,
              format |-> <<>>]
        ELSE [valid |-> TRUE, error |-> <<>>, format |-> format]

validateAudioFileExclusiveLimit(bufferLength, mimeType, filename, maxSizeBytes) ==
    IF bufferLength = 0
    THEN [valid |-> FALSE, error |-> <<"Audio file is empty">>, format |-> <<>>]
    ELSE IF bufferLength >= maxSizeBytes
    THEN [valid |-> FALSE, error |-> <<"File size", "exceeds maximum">>,
          format |-> <<>>]
    ELSE LET format == detectAudioFormat(mimeType, filename)
         IN  IF format = <<>>
             THEN [valid |-> FALSE,
                   error |-> <<"Unsupported", "audio format">>, format |-> <<>>]
             ELSE [valid |-> TRUE, error |-> <<>>, format |-> format]

validateAudioFile(bufferLength, mimeType, filename, maxSizeBytes) ==
    IF bufferLength = 0
    THEN [valid |-> FALSE, error |-> <<"Audio file is empty">>, format |-> <<>>]
    ELSE IF bufferLength > maxSizeBytes
    THEN [valid |-> FALSE, error |-> <<"File size", "exceeds maximum">>,
          format |-> <<>>]
    ELSE LET format == detectAudioFormat(mimeType, filename)
         IN  IF format = <<>>
             THEN [valid |-> FALSE,
                   error |-> <<"Unsupported", "audio format">>, format |-> <<>>]
             ELSE [valid |-> TRUE, error |-> <<>>, format |-> format]

\* filename.replace(/\.[^.]+$/, '') + '.' + extension
\* Variant: the extension is appended to the whole filename.
normalizeFilenameAppends(filename, format) ==
    Append(filename, IF format = "mpeg" THEN "mp3" ELSE format)

normalizeFilename(filename, format) ==
    LET baseName == IF hasExtension(filename)
                    THEN SubSeq(filename, 1, Len(filename) - 1)
                    ELSE filename
        extension == IF format = "mpeg" THEN "mp3" ELSE format
    IN  Append(baseName, extension)

getMimeTypeForFormat(format) ==
    CASE format = "flac" -> "audio/flac"
      [] format \in {"mp3", "mpeg", "mpga"} -> "audio/mpeg"
      [] format = "mp4" -> "audio/mp4"
      [] format = "ogg" -> "audio/ogg"
      [] format = "wav" -> "audio/wav"
      [] format = "webm" -> "audio/webm"

\* --------------------------------------------------------- utils/errors.ts
NoDetails == <<>>

ApplicationError(cls, message, code, statusCode, details) ==
    [cls |-> cls, name |-> cls, message |-> message, code |-> code,
     statusCode |-> statusCode, details |-> details]

ValidationError(message) ==
    ApplicationError("ValidationError", message, "VALIDATION_ERROR", 400, NoDetails)

InvalidAudioFormatError(providedFormat) ==
    ApplicationError("InvalidAudioFormatError",
                     <<"Invalid", "audio", "format:">> \o providedFormat,
                     "INVALID_AUDIO_FORMAT", 400,
                     [providedFormat |-> providedFormat,
                      allowedFormats |-> SUPPORTED_AUDIO_FORMATS])

FileTooLargeError(fileSize, maxSize) ==
    ApplicationError("FileTooLargeError", <<"File", "size", "exceeds", "maximum">>,
                     "FILE_TOO_LARGE", 413, [fileSize |-> fileSize, maxSize |-> maxSize])

MissingAudioError ==
    ApplicationError("MissingAudioError", <<"No", "audio", "file", "provided">>,
                     "MISSING_AUDIO", 400, NoDetails)

TranscriptionError(message, details) ==
    ApplicationError("TranscriptionError", message, "TRANSCRIPTION_FAILED", 500, details)

\* Variant: the details are not spread into the error's details.
ProviderErrorDropsDetails(provider, message, details) ==
    ApplicationError("ProviderError", <<provider, "error:">> \o message,
                     "PROVIDER_ERROR", 502, [provider |-> provider])

ProviderError(provider, message, details) ==
    ApplicationError("ProviderError", <<provider, "error:">> \o message,
                     "PROVIDER_ERROR", 502, Spread([provider |-> provider], details))

TimeoutError(operation, ms) ==
    ApplicationError("TimeoutError",
                     <<"Operation">> \o operation \o <<"timed", "out">>,
                     "TIMEOUT", 504, [operation |-> operation, timeoutMs |-> ms])

ApplicationErrorClasses ==
    {"ApplicationError", "ValidationError", "InvalidAudioFormatError",
     "FileTooLargeError", "MissingAudioError", "RateLimitError",
     "TranscriptionError", "ProviderError", "TimeoutError",
     "ServiceUnavailableError"}

\* Exceptions that are not ApplicationErrors: built-in errors (cls Error,
\* TypeError, SyntaxError, DOMException, MulterError) and thrown values that
\* are no Error at all (cls NotAnError).
NativeError(cls, name, message) == [cls |-> cls, name |-> name, message |-> message]

instanceofError(e) == e.cls # "NotAnError"
instanceofApplicationError(e) == e.cls \in ApplicationErrorClasses


\* ------------------------------------------- services/transcription.ts
\* GroqWhisperService.detectFormat: its own MIME table (no trim), then the
\* last '.'-segment of the lowercased filename, then webm.
mimeFormats(m) ==
    CASE m = "audio/webm" -> <<"webm">>
      [] m = "audio/wav" -> <<"wav">>
      [] m \in {"audio/mp3", "audio/mpeg"} -> <<"mp3">>
      [] m = "audio/ogg" -> <<"ogg">>
      [] m = "audio/flac" -> <<"flac">>
      [] m = "audio/mp4" -> <<"mp4">>
      [] OTHER -> inherited(m)

detectFormat(mimeType, filename) ==
    LET format == mimeFormats(toLowerCase(Head(mimeType)))
        ext == toLowerCase(filename[Len(filename)])
    IN  IF format # <<>> THEN format[1]
        ELSE IF ext # "" /\ ext \in SUPPORTED_AUDIO_FORMATS THEN ext
        ELSE "webm"

\* The multipart payload callApi builds from the request (lines 146-171).
\* Variant: the temperature is appended only when it is truthy.
BuildFormDataTruthyTemperature(req) ==
    LET format == detectFormat(req.mimeType, req.filename)
    IN  [file |-> [filename |-> normalizeFilename(req.filename, format),
                   contentType |-> getMimeTypeForFormat(format),
                   length |-> req.audioBufferLength],
         model |-> WHISPER_MODEL,
         response_format |-> "verbose_json",
         language |-> IF req.language # <<>> /\ req.language[1] # ""
                         /\ req.language[1] # "auto"
                      THEN req.language ELSE <<>>,
         prompt |-> IF req.prompt # <<>> /\ req.prompt[1] # <<>>
                    THEN req.prompt ELSE <<>>,
         temperature |-> IF req.temperature # <<>> /\ req.temperature[1] # 0
                         THEN req.temperature ELSE <<>>]

BuildFormData(req) ==
    LET format == detectFormat(req.mimeType, req.filename)
    IN  [file |-> [filename |-> normalizeFilename(req.filename, format),
                   contentType |-> getMimeTypeForFormat(format),
                   length |-> req.audioBufferLength],
         model |-> WHISPER_MODEL,
         response_format |-> "verbose_json",
         language |-> IF req.language # <<>> /\ req.language[1] # ""
                         /\ req.language[1] # "auto"
                      THEN req.language ELSE <<>>,
         prompt |-> IF req.prompt # <<>> /\ req.prompt[1] # <<>>
                    THEN req.prompt ELSE <<>>,
         temperature |-> req.temperature]

TransientCodes == {"ECONNRESET", "ETIMEDOUT", "ENOTFOUND"}

\* Variant: any thrown value with a matching message counts as transient.
isRetryableErrorByMessage(error) ==
    IF error.cls = "ProviderError"
    THEN "retryable" \in DOMAIN error.details /\ error.details["retryable"] = TRUE
    ELSE IF error.cls = "TimeoutError" THEN TRUE
    ELSE \E code \in TransientCodes : includes(error.message, code)

isRetryableError(error) ==
    IF error.cls = "ProviderError"
    THEN "retryable" \in DOMAIN error.details /\ error.details["retryable"] = TRUE
    ELSE IF error.cls = "TimeoutError" THEN TRUE
    ELSE IF instanceofError(error)
    THEN \E code \in TransientCodes : includes(error.message, code)
    ELSE FALSE

\* RETRY_DELAY_MS * Math.pow(RETRY_BACKOFF_MULTIPLIER, attempt - 1)
\* Variant: no exponential growth.
retryDelayMsConstant(n) == RETRY_DELAY_MS

retryDelayMs(n) == RETRY_DELAY_MS * Pow(RETRY_BACKOFF_MULTIPLIER, n - 1)

\* callApiWithRetry's decision in its catch block (line 119).
\* Variants: attempt <= MAX_RETRIES; retryability ignored.
shouldRetryOffByOne(error, n) == isRetryableError(error) /\ n <= MAX_RETRIES

shouldRetryAlways(error, n) == n < MAX_RETRIES

shouldRetry(error, n) == isRetryableError(error) /\ n < MAX_RETRIES

\* The message callApi derives from a non-success body (lines 200-208):
\* JSON.parse(errorBody).error?.message ?? 'Unknown API error', and when
\* that throws (no JSON, or JSON null), errorBody || `HTTP ${status}`.
\* Variant: a JSON body without error.message falls back to the raw body.
errorMessageOfRawFallback(st, body) ==
    IF body.isJson /\ body.isObject /\ body.errorMessage # <<>>
    THEN body.errorMessage[1]
    ELSE IF body.raw # <<>> THEN body.raw ELSE <<"HTTP", ToString(st)>>

errorMessageOf(st, body) ==
    IF body.isJson /\ body.isObject
    THEN IF body.errorMessage # <<>> THEN body.errorMessage[1]
         ELSE <<"Unknown", "API", "error">>
    ELSE IF body.raw # <<>> THEN body.raw ELSE <<"HTTP", ToString(st)>>

\* The error callApi throws for a non-success response (lines 216-233).
errorForStatus(st, body) ==
    IF st = 429
    THEN ProviderError("Groq", <<"Rate", "limit", "exceeded">>,
                       [status |-> 429, retryable |-> TRUE])
    ELSE IF st >= 500
    THEN ProviderError("Groq", errorMessageOf(st, body),
                       [status |-> st, retryable |-> TRUE])
    ELSE ProviderError("Groq", errorMessageOf(st, body),
                       [status |-> st, retryable |-> FALSE])

\* JavaScript truthiness of a JSON value.
falsy(v) ==
    \/ v.type = "null"
    \/ v.type = "string" /\ v.str = <<>>
    \/ v.type = "number" /\ v.num = 0

\* !data.text && data.text !== ''  (line 239); text is <<>> when the field is absent.
\* Variant: !data.text alone.
textIsMissingFalsy(text) == text = <<>> \/ falsy(text[1])

textIsMissing(text) ==
    \/ text = <<>>
    \/ falsy(text[1]) /\ ~(text[1].type = "string" /\ text[1].str = <<>>)

\* callApi's catch block (lines 244-252): an AbortError becomes a TimeoutError.
\* Variant: the AbortError is rethrown as it is.
callApiCatchKeepsAbort(error) == error

callApiCatch(error) ==
    IF instanceofError(error) /\ error.name = "AbortError"
    THEN TimeoutError(<<"Groq", "API", "call">>, timeoutMs)
    ELSE error

AbortError == NativeError("DOMException", "AbortError", <<"This", "operation", "was", "aborted">>)

\* What the rest of callApi does with a parsed 2xx body (lines 237-243):
\* the error it throws, or <<>> when it returns the data.
\* Variant: a missing text throws a plain Error.
parseFailureThrowsPlainError(data) ==
    IF ~data.isJson
    THEN <<NativeError("SyntaxError", "SyntaxError", <<"Unexpected", "token">>)>>
    ELSE IF ~data.isObject
    THEN <<NativeError("TypeError", "TypeError",
                       <<"Cannot", "read", "properties", "of", "null">>)>>
    ELSE IF textIsMissing(data.text)
    THEN <<NativeError("Error", "Error", <<"API", "returned", "empty", "response">>)>>
    ELSE <<>>

parseFailure(data) ==
    IF ~data.isJson
    THEN <<NativeError("SyntaxError", "SyntaxError", <<"Unexpected", "token">>)>>
    ELSE IF ~data.isObject
    THEN <<NativeError("TypeError", "TypeError",
                       <<"Cannot", "read", "properties", "of", "null">>)>>
    ELSE IF textIsMissing(data.text)
    THEN <<TranscriptionError(<<"API", "returned", "empty", "response">>,
                              [requestId |-> requestId])>>
    ELSE <<>>

\* transcribe's assembly of the result (lines 73-82): response.text.trim()
\* throws a TypeError when text is no string.
\* Variant: the requested language wins over the one upstream detected, and
\* the text is copied as it came.
assembleAsRequested(req, id, data) ==
    IF data.text[1].type # "string"
    THEN [kind |-> "error",
          error |-> NativeError("TypeError", "TypeError",
                                <<"response.text.trim", "is", "not", "a", "function">>)]
    ELSE [kind |-> "result",
          result |-> [requestId |-> id,
                      text |-> data.text[1].str,
                      language |-> IF req.language # <<>> THEN req.language[1]
                                   ELSE IF data.language # <<>> THEN data.language[1]
                                   ELSE "auto",
                      audioDurationSeconds |-> data.duration]]

assemble(req, id, data) ==
    IF data.text[1].type # "string"
    THEN [kind |-> "error",
          error |-> NativeError("TypeError", "TypeError",
                                <<"response.text.trim", "is", "not", "a", "function">>)]
    ELSE [kind |-> "result",
          result |-> [requestId |-> id,
                      text |-> trimWords(data.text[1].str),
                      language |-> IF data.language # <<>> THEN data.language[1]
                                   ELSE IF req.language # <<>> THEN req.language[1]
                                   ELSE "auto",
                      audioDurationSeconds |-> data.duration]]


\* ------------------------------------------------ middleware/errorHandler
\* errorHandler (lines 97-112): the status and code of the answer.
\* Variant: a MulterError is answered like any unknown error.
errorHandlerWithoutMulter(error) ==
    IF instanceofApplicationError(error)
    THEN [status |-> error.statusCode, code |-> error.code]
    ELSE [status |-> 500, code |-> "INTERNAL_ERROR"]

errorHandler(error) ==
    IF instanceofApplicationError(error)
    THEN [status |-> error.statusCode, code |-> error.code]
    ELSE IF error.name = "MulterError"
    THEN [status |-> 400, code |-> "VALIDATION_ERROR"]
    ELSE [status |-> 500, code |-> "INTERNAL_ERROR"]

\* ---------------------------------------------------------- routes/index.ts
\* upload.single('audio'): multer's fileFilter, then its fileSize limit.
\* <<>> when the upload passes on to the controller, else the error.
uploadSingle(h) ==
    IF h.file = <<>> THEN <<>>
    ELSE IF ~(startsWithAudio(Head(h.file[1].mimetype))
              \/ h.file[1].mimetype = <<"video/webm">>)
    THEN <<NativeError("Error", "Error", <<"Invalid file type">>)>>
    ELSE IF h.file[1].size > MAX_AUDIO_SIZE_MB * 1024 * 1024
    THEN <<NativeError("MulterError", "MulterError", <<"File too large">>)>>
    ELSE <<>>

\* ------------------------------------------------ controllers/transcription
parseLanguage(value) ==
    IF value # <<>> /\ trim(value[1]) # "" THEN <<toLowerCase(trim(value[1]))>>
    ELSE <<>>

\* The prompt is a sequence of words, shorter than the 500 characters kept.
parsePrompt(value) ==
    IF value # <<>> /\ trimWords(value[1]) # <<>> THEN <<trimWords(value[1])>>
    ELSE <<>>

parseTemperature(value) ==
    IF value # <<>> /\ value[1] >= 0 /\ value[1] <= 1 THEN value ELSE <<>>

\* TranscriptionController.transcribe up to the call of the service
\* (lines 44-95): the error it hands to next(), or the request it passes on.
\* Variant: neither the minimum size nor validateAudioFile is consulted.
controllerSkipsValidation(h) ==
    IF h.file = <<>> THEN [ok |-> FALSE, error |-> MissingAudioError]
    ELSE [ok |-> TRUE,
          request |-> [audioBufferLength |-> h.file[1].size,
                       filename |-> h.file[1].originalname,
                       mimeType |-> h.file[1].mimetype,
                       language |-> parseLanguage(h.language),
                       prompt |-> parsePrompt(h.prompt),
                       temperature |-> parseTemperature(h.temperature)]]

controller(h) ==
    IF h.file = <<>> THEN [ok |-> FALSE, error |-> MissingAudioError]
    ELSE IF h.file[1].size < MIN_FILE_SIZE
    THEN [ok |-> FALSE, error |-> ValidationError(<<"Audio file is too small">>)]
    ELSE LET file == h.file[1]
             validation == validateAudioFile(file.size, file.mimetype,
                                             file.originalname, maxFileSizeBytes)
         IN  IF ~validation.valid
             THEN IF includes(validation.error, "exceeds maximum")
                  THEN [ok |-> FALSE,
                        error |-> FileTooLargeError(file.size, maxFileSizeBytes)]
                  ELSE IF includes(validation.error, "Unsupported")
                  THEN [ok |-> FALSE,
                        error |-> InvalidAudioFormatError(file.mimetype)]
                  ELSE [ok |-> FALSE, error |-> ValidationError(validation.error)]
             ELSE [ok |-> TRUE,
                   request |-> [audioBufferLength |-> file.size,
                                filename |-> file.originalname,
                                mimeType |-> file.mimetype,
                                language |-> parseLanguage(h.language),
                                prompt |-> parsePrompt(h.prompt),
                                temperature |-> parseTemperature(h.temperature)]]

\* The route: upload.single('audio'), then the controller.
admit(h) ==
    IF uploadSingle(h) # <<>> THEN [ok |-> FALSE, error |-> uploadSingle(h)[1]]
    ELSE controller(h)

\* ------------------------------------------------- middleware: CORS origin
\* config.allowedOrigins (default of ALLOWED_ORIGINS) and isDevelopment.
allowedOrigins == {"http://localhost:5173"}

\* String.prototype.endsWith('.netlify.app') on the origins the model uses.
endsWithNetlifyApp(s) == s \in {"https://dictation.netlify.app", ".netlify.app"}

\* The origin callback of getCorsOptions (lines 180-199): what it passes to
\* callback(err, allow), and whether it logged a warning.
\* Variant: an origin that is not allowed is refused with an error.
corsOriginRefuses(origin, nodeEnv) ==
    IF origin = <<>> \/ origin[1] = "" \/ nodeEnv = "development"
    THEN [err |-> <<>>, allow |-> <<TRUE>>, warned |-> FALSE]
    ELSE IF origin[1] \in allowedOrigins \/ endsWithNetlifyApp(origin[1])
    THEN [err |-> <<>>, allow |-> <<TRUE>>, warned |-> FALSE]
    ELSE [err |-> <<NativeError("Error", "Error", <<"Not allowed by", "CORS">>)>>,
          allow |-> <<>>, warned |-> TRUE]

corsOrigin(origin, nodeEnv) ==
    IF origin = <<>> \/ origin[1] = "" \/ nodeEnv = "development"
    THEN [err |-> <<>>, allow |-> <<TRUE>>, warned |-> FALSE]
    ELSE IF origin[1] \in allowedOrigins \/ endsWithNetlifyApp(origin[1])
    THEN [err |-> <<>>, allow |-> <<TRUE>>, warned |-> FALSE]
    ELSE [err |-> <<>>, allow |-> <<TRUE>>, warned |-> TRUE]

\* ----------------------------------------------------- the inputs drawn
File(size, mimetype, originalname) ==
    [size |-> size, mimetype |-> mimetype, originalname |-> originalname]

Http(file, language, prompt, temperature) ==
    [file |-> file, language |-> language, prompt |-> prompt,
     temperature |-> temperature]

\* POST /api/transcribe requests: no file, too small, empty, too large,
\* refused MIME type, undetectable format, and files that pass validation.
RejectedHttp ==
    { Http(<<>>, <<>>, <<>>, <<>>),
      Http(<<File(0, <<"audio/webm">>, <<"a", "webm">>)>>, <<>>, <<>>, <<>>),
      Http(<<File(MIN_FILE_SIZE - 1, <<"audio/webm">>, <<"a", "webm">>)>>,
           <<>>, <<>>, <<>>),
      Http(<<File(maxFileSizeBytes + 1, <<"audio/webm">>, <<"a", "webm">>)>>,
           <<"EN">>, <<>>, <<>>),
      Http(<<File(MIN_FILE_SIZE, <<"application/octet-stream">>, <<"a", "webm">>)>>,
           <<>>, <<>>, <<>>),
      Http(<<File(MIN_FILE_SIZE, <<"audio/aac">>, <<"clip", "bad">>)>>,
           <<>>, <<>>, <<>>),
      Http(<<File(MIN_FILE_SIZE, <<"audio/aac">>, <<"clip", "">>)>>,
           <<"auto">>, <<>>, <<>>) }

AcceptedHttp ==
    { Http(<<File(MIN_FILE_SIZE, <<"audio/webm", "codecs=opus">>,
                  <<"recording", "webm">>)>>, <<>>, <<>>, <<>>),
      Http(<<File(maxFileSizeBytes, <<"audio/x-m4a">>, <<"Clip", "m4a">>)>>,
           <<"auto">>, <<<<" ">>>>, <<0>>),
      Http(<<File(MIN_FILE_SIZE, <<"audio/aac">>, <<"a", "b", "MP3">>)>>,
           <<" en ">>, <<<<" ", "names:", "Groq", " ">>>>, <<1>>),
      Http(<<File(MIN_FILE_SIZE, <<"video/webm">>, <<"clip", "mpeg">>)>>,
           <<"EN">>, <<>>, <<2>>),
      Http(<<File(MIN_FILE_SIZE, <<"audio/ogg ", "codecs=opus">>,
                  <<"voice", "opus">>)>>, <<" ">>, <<>>, <<>>),
      Http(<<File(MIN_FILE_SIZE, <<"audio/WAV">>, <<"note">>)>>,
           <<>>, <<>>, <<>>) }

HttpRequests == RejectedHttp \cup AcceptedHttp

\* Upstream answers.
OkStatuses == {200}
NonOkStatuses == {302, 401, 404, 429, 500, 503}
Statuses == OkStatuses \cup NonOkStatuses

ErrorBody(raw, isJson, errorMessage) ==
    [raw |-> raw, isJson |-> isJson, isObject |-> isJson, errorMessage |-> errorMessage]

ErrorBodies ==
    { ErrorBody(<<"{error:{message:Invalid API Key}}">>, TRUE,
                <<<<"Invalid", "API", "Key">>>>),
      ErrorBody(<<"{}">>, TRUE, <<>>),
      ErrorBody(<<"Bad", "Gateway">>, FALSE, <<>>),
      ErrorBody(<<>>, FALSE, <<>>) }

JString(words) == [type |-> "string", str |-> words]
JNumber(n) == [type |-> "number", num |-> n]
JNull == [type |-> "null"]

SuccessBody(isJson, isObject, text, language, duration) ==
    [isJson |-> isJson, isObject |-> isObject, text |-> text,
     language |-> language, duration |-> duration]

SuccessBodies ==
    { SuccessBody(FALSE, FALSE, <<>>, <<>>, <<>>),
      SuccessBody(TRUE, FALSE, <<>>, <<>>, <<>>),
      SuccessBody(TRUE, TRUE, <<>>, <<"en">>, <<3>>),
      SuccessBody(TRUE, TRUE, <<JNull>>, <<>>, <<>>),
      SuccessBody(TRUE, TRUE, <<JNumber(5)>>, <<>>, <<>>),
      SuccessBody(TRUE, TRUE, <<JString(<<>>)>>, <<>>, <<>>),
      SuccessBody(TRUE, TRUE, <<JString(<<"hi">>)>>, <<>>, <<>>),
      SuccessBody(TRUE, TRUE, <<JString(<<" ", "hello", "world", " ">>)>>,
                  <<"fr">>, <<3>>) }

\* What fetch can reject with, besides the abort.
FetchExceptions ==
    { NativeError("TypeError", "TypeError", <<"fetch", "failed">>),
      NativeError("Error", "Error", <<"read", "ECONNRESET">>),
      NativeError("Error", "Error", <<"connect", "ETIMEDOUT">>),
      NativeError("Error", "Error", <<"getaddrinfo", "ENOTFOUND", "api.groq.com">>) }

\* What reading the body (response.text(), response.json()) can reject with.
BodyExceptions ==
    { NativeError("TypeError", "TypeError", <<"terminated">>) }


\* ---------------------------------------------------------------- actions
\* The parts of the state a specification does not use stay as they start.
PipelineIdle ==
    /\ served = 0 /\ httpRequest = <<>> /\ request = <<>> /\ requestId = 0
    /\ pc = "idle" /\ attempt = 0 /\ status = 0 /\ timeoutTimer = 0
    /\ delayTimer = 0 /\ inflight = 0 /\ outbound = <<>> /\ settled = <<>>
    /\ waits = <<>> /\ started = <<>> /\ delivered = <<>> /\ httpResponse = <<>>

ServiceIdle == serviceInstance = 0 /\ nextId = 1 /\ calls = <<>>

UnitIdle == input = <<>> /\ output = <<>>

BrowserIdle == hook = <<>> /\ app = <<>>

Init ==
    /\ ServiceIdle
    /\ UnitIdle
    /\ BrowserIdle
    /\ served = 0
    /\ httpRequest = <<>>
    /\ request = <<>>
    /\ requestId = 0
    /\ pc = "idle"
    /\ attempt = 0
    /\ status = 0
    /\ timeoutTimer = 0
    /\ delayTimer = 0
    /\ inflight = 0
    /\ outbound = <<>>
    /\ settled = <<>>
    /\ waits = <<>>
    /\ started = <<>>
    /\ delivered = <<>>
    /\ httpResponse = <<>>

\* The controller's answer: res.status(200).json(...) or next(error).
respond(outcome) ==
    IF outcome.kind = "result" THEN [status |-> 200, code |-> "OK"]
    ELSE errorHandler(outcome.error)

\* callApi from its entry to `await fetch` (lines 146-194) for attempt n of
\* request req: the payload is built, the abort timer armed, the call issued.
IssueCall(req, n, sent) ==
    /\ outbound' = Append(sent, BuildFormData(req))
    /\ attempt' = n
    /\ timeoutTimer' = n
    /\ inflight' = inflight + 1
    /\ status' = 0
    /\ pc' = "fetch"

\* transcribe hands its outcome to the controller, which answers the browser.
Deliver(outcome) ==
    /\ delivered' = Append(delivered, outcome)
    /\ httpResponse' = <<respond(outcome)>>
    /\ pc' = "done"

\* await this.delay(delayMs) (line 130): the backoff timer is started and
\* the invocation is suspended until it fires.
\* Variant: the delay is started but not awaited.
BackoffNotAwaited(ms) ==
    /\ delayTimer' = ms
    /\ started' = Append(started, ms)
    /\ outbound' = Append(outbound, BuildFormData(request[1]))
    /\ attempt' = attempt + 1
    /\ timeoutTimer' = attempt + 1
    /\ pc' = "fetch"
    /\ status' = 0
    /\ UNCHANGED <<inflight, waits, delivered, httpResponse>>

\* Variant: the abort timer of the attempt that threw is left pending.
BackoffTimerPending(ms) ==
    /\ delayTimer' = ms
    /\ started' = Append(started, ms)
    /\ pc' = "backoff"
    /\ inflight' = inflight - 1
    /\ status' = 0
    /\ UNCHANGED <<attempt, outbound, waits, delivered, httpResponse, timeoutTimer>>

Backoff(ms) ==
    /\ delayTimer' = ms
    /\ started' = Append(started, ms)
    /\ pc' = "backoff"
    /\ timeoutTimer' = 0
    /\ inflight' = inflight - 1
    /\ status' = 0
    /\ UNCHANGED <<attempt, outbound, waits, delivered, httpResponse>>

\* callApi throws `error` (after its catch block, which clears the abort
\* timer, ran): callApiWithRetry's catch block (lines 115-135) and, when it
\* rethrows, transcribe's (lines 92-102).
Throw(via, error, data) ==
    /\ settled' = Append(settled, [n |-> attempt, via |-> via, status |-> status,
                                   threw |-> TRUE, error |-> <<error>>,
                                   data |-> data])
    /\ IF shouldRetry(error, attempt)
       THEN Backoff(retryDelayMs(attempt))
       ELSE /\ Deliver([kind |-> "error", error |-> error])
            /\ timeoutTimer' = 0
            /\ inflight' = inflight - 1
            /\ status' = 0
            /\ UNCHANGED <<attempt, outbound, waits, delayTimer, started>>
    /\ UNCHANGED <<served, httpRequest, request, requestId>>

\* callApi returns `data`: callApiWithRetry returns it and transcribe
\* assembles the result (lines 72-91).
Return(data) ==
    /\ settled' = Append(settled, [n |-> attempt, via |-> "successBody",
                                   status |-> status, threw |-> FALSE,
                                   error |-> <<>>, data |-> <<data>>])
    /\ inflight' = inflight - 1
    /\ status' = 0
    /\ Deliver(assemble(request[1], requestId, data))
    /\ UNCHANGED <<served, httpRequest, request, requestId, attempt, timeoutTimer,
                   delayTimer, outbound, waits, started>>

\* POST /api/transcribe: upload middleware, controller, and, for a valid
\* file, transcribe up to the first `await fetch`. Requests are taken one
\* after the other, each within the rate limit; every invocation starts
\* with locals of its own (attempt, timers, request identifier).
PostTranscribe(h) ==
    /\ served < MaxRequests
    /\ pc \in {"idle", "done"}
    /\ served' = served + 1
    /\ httpRequest' = <<h>>
    /\ settled' = <<>>
    /\ waits' = <<>>
    /\ started' = <<>>
    /\ delayTimer' = 0
    /\ delivered' = <<>>
    /\ LET a == admit(h)
       IN  IF a.ok
           THEN /\ request' = <<a.request>>
                /\ requestId' = served + 1
                /\ httpResponse' = <<>>
                /\ IssueCall(a.request, 1, <<>>)
           ELSE /\ request' = <<>>
                /\ requestId' = 0
                /\ httpResponse' = <<errorHandler(a.error)>>
                /\ outbound' = <<>>
                /\ attempt' = 0
                /\ pc' = "idle"
                /\ UNCHANGED <<status, timeoutTimer, inflight>>

\* fetch resolves with a response of status st: clearTimeout (line 196),
\* then the body is awaited (response.text() or response.json()).
FetchResolves(st) ==
    /\ pc = "fetch"
    /\ timeoutTimer' = 0
    /\ status' = st
    /\ pc' = "body"
    /\ UNCHANGED <<served, httpRequest, request, requestId, attempt, delayTimer,
                   inflight, outbound, settled, waits, started, delivered,
                   httpResponse>>

\* fetch rejects with a transport exception.
FetchRejects(exc) ==
    /\ pc = "fetch"
    /\ Throw("fetchRejects", callApiCatch(exc), <<>>)

\* The body of a non-success response has been read.
ErrorBodyArrives(body) ==
    /\ pc = "body"
    /\ status \in NonOkStatuses
    /\ Throw("errorBody", callApiCatch(errorForStatus(status, body)), <<>>)

\* The body of a 2xx response has been read and parsed.
SuccessBodyArrives(body) ==
    /\ pc = "body"
    /\ status \in OkStatuses
    /\ IF parseFailure(body) # <<>>
       THEN Throw("successBody", callApiCatch(parseFailure(body)[1]), <<body>>)
       ELSE Return(body)

\* Reading the body rejects with a transport exception.
BodyFails(exc) ==
    /\ pc = "body"
    /\ Throw("bodyFails", callApiCatch(exc), <<>>)

\* The abort timer fires: controller.abort() (line 175). The awaited fetch
\* or body read of that attempt rejects with an AbortError.
TimeoutFires ==
    /\ timeoutTimer # 0
    /\ IF pc \in {"fetch", "body"} /\ timeoutTimer = attempt
       THEN Throw("abort", callApiCatch(AbortError), <<>>)
       ELSE /\ timeoutTimer' = 0
            /\ UNCHANGED <<served, httpRequest, request, requestId, pc, attempt,
                           status, delayTimer, inflight, outbound, settled,
                           waits, started, delivered, httpResponse>>

\* The backoff timer fires (delay, lines 305-307): callApiWithRetry calls
\* itself with attempt + 1 (line 131), which issues the next call.
DelayElapses ==
    /\ delayTimer # 0
    /\ waits' = Append(waits, delayTimer)
    /\ delayTimer' = 0
    /\ IF pc = "backoff"
       THEN IssueCall(request[1], attempt + 1, outbound)
       ELSE UNCHANGED <<pc, attempt, status, timeoutTimer, inflight, outbound>>
    /\ UNCHANGED <<served, httpRequest, request, requestId, settled,
                   started, delivered, httpResponse>>

\* The pipeline's steps leave the state of the other specifications alone.
PipelineOnly == UNCHANGED <<serviceVars, unitVars, hook, app>>

Next ==
    \/ \E h \in HttpRequests : PostTranscribe(h) /\ PipelineOnly
    \/ \E st \in Statuses : FetchResolves(st) /\ PipelineOnly
    \/ \E exc \in FetchExceptions : FetchRejects(exc) /\ PipelineOnly
    \/ \E body \in ErrorBodies : ErrorBodyArrives(body) /\ PipelineOnly
    \/ \E body \in SuccessBodies : SuccessBodyArrives(body) /\ PipelineOnly
    \/ \E exc \in BodyExceptions : BodyFails(exc) /\ PipelineOnly
    \/ TimeoutFires /\ PipelineOnly
    \/ DelayElapses /\ PipelineOnly

Spec == Init /\ [][Next]_vars

\* ------------------------------------------------------- timers are fair
\* The event loop runs every timer that is due: a pending setTimeout
\* callback (the abort of line 175, the backoff of lines 305-307) fires.
\* Nothing is assumed of the upstream: it may answer, fail or stay silent.
FairSpec ==
    /\ Spec
    /\ WF_vars(TimeoutFires /\ PipelineOnly)
    /\ WF_vars(DelayElapses /\ PipelineOnly)

\* ------------------------------------------- concurrent invocations
\* Callers invoke transcribe on the one GroqWhisperService while other
\* invocations are suspended in fetch, in a body read or in a backoff. Every
\* invocation is a chain of async calls whose parameters and consts are its
\* locals (requestId, attempt, controller, timeoutId); the instance fields
\* (apiKey, apiUrl, timeoutMs) are readonly.
NumCallers == 2
Callers == 1..NumCallers

NoController == <<0, 0>>

IdleCall ==
    [pc |-> "idle", request |-> <<>>, requestId |-> 0, attempt |-> 0,
     status |-> 0, controller |-> NoController, timeoutTimer |-> NoController,
     delayTimer |-> 0, sent |-> <<>>, seen |-> <<>>, started |-> <<>>,
     outcome |-> <<>>]

\* new AbortController() (line 174): one object per call of callApi.
\* Variant: one controller kept on the service instance.
sharedAbortController(i, n) == <<1, 1>>

newAbortController(i, n) == <<i, n>>

\* callApi from its entry to `await fetch` for attempt n of caller i.
issue(c, i, n) ==
    [c EXCEPT !.pc = "fetch", !.attempt = n, !.status = 0,
              !.controller = newAbortController(i, n),
              !.timeoutTimer = newAbortController(i, n),
              !.sent = Append(c.sent, BuildFormData(c.request[1]))]

\* callApi throws `error`: callApiWithRetry's and transcribe's catch blocks.
\* `cause` is the upstream event that ended the attempt (event) and the
\* caller whose response or timer it was (by).
thrown(c, cause, error) ==
    LET seen == Append(c.seen, [n |-> c.attempt, cause |-> cause])
    IN  IF shouldRetry(error, c.attempt)
        THEN [c EXCEPT !.pc = "backoff", !.status = 0,
                       !.controller = NoController,
                       !.timeoutTimer = NoController,
                       !.delayTimer = retryDelayMs(c.attempt),
                       !.started = Append(c.started, retryDelayMs(c.attempt)),
                       !.seen = seen]
        ELSE [c EXCEPT !.pc = "done", !.status = 0,
                       !.controller = NoController,
                       !.timeoutTimer = NoController,
                       !.outcome = <<[kind |-> "error", error |-> error]>>,
                       !.seen = seen]

\* callApi returns `data`: transcribe assembles the result.
returned(c, cause, data) ==
    [c EXCEPT !.pc = "done", !.status = 0, !.controller = NoController,
              !.outcome = <<assemble(c.request[1], c.requestId, data)>>,
              !.seen = Append(c.seen, [n |-> c.attempt, cause |-> cause])]

\* fetch resolved with status st: clearTimeout(timeoutId) (line 196), then
\* the body is awaited.
responded(c, st) ==
    [c EXCEPT !.pc = "body", !.status = st, !.timeoutTimer = NoController]

\* What callApi does with the body of a response of status st.
bodyRead(c, cause, st, body) ==
    IF st \in OkStatuses
    THEN IF parseFailure(body) # <<>>
         THEN thrown(c, cause, callApiCatch(parseFailure(body)[1]))
         ELSE returned(c, cause, body)
    ELSE thrown(c, cause, callApiCatch(errorForStatus(st, body)))

\* The request of each caller, and the statuses, bodies and transport
\* exceptions upstream answers with in this specification.
requestOf(i) ==
    IF i % 2 = 1
    THEN [audioBufferLength |-> MIN_FILE_SIZE, filename |-> <<"recording", "webm">>,
          mimeType |-> <<"audio/webm", "codecs=opus">>, language |-> <<>>,
          prompt |-> <<>>, temperature |-> <<>>]
    ELSE [audioBufferLength |-> maxFileSizeBytes, filename |-> <<"Clip", "m4a">>,
          mimeType |-> <<"audio/ogg">>, language |-> <<"en">>,
          prompt |-> <<>>, temperature |-> <<0>>]

ServiceStatuses == {200, 429}

bodyOf(st) ==
    IF st \in OkStatuses
    THEN SuccessBody(TRUE, TRUE, <<JString(<<" ", "hello", "world", " ">>)>>,
                     <<>>, <<3>>)
    ELSE ErrorBody(<<"Bad", "Gateway">>, FALSE, <<>>)

ServiceExceptions ==
    { NativeError("TypeError", "TypeError", <<"fetch", "failed">>) }

\* The upstream events that end an attempt.
Answer(st) == [kind |-> "answer", status |-> st]
Rejection(exc) == [kind |-> "rejection", exc |-> exc]
Timeout == [kind |-> "timeout"]

ServiceInit ==
    /\ PipelineIdle
    /\ UnitIdle
    /\ BrowserIdle
    /\ serviceInstance = 0
    /\ nextId = 1
    /\ calls = [i \in Callers |-> IdleCall]

\* getTranscriptionService (lines 333-338), then transcribe (lines 59-72) up
\* to the first `await fetch`.
Transcribe(i) ==
    /\ calls[i].pc = "idle"
    /\ serviceInstance' = IF serviceInstance = 0 THEN 1 ELSE serviceInstance
    /\ nextId' = nextId + 1
    /\ calls' = [calls EXCEPT ![i] =
                    issue([IdleCall EXCEPT !.request = <<requestOf(i)>>,
                                           !.requestId = nextId], i, 1)]

\* The fetch of caller i resolves: clearTimeout(timeoutId) (line 196), then
\* the body is awaited.
Responds(i, st) ==
    /\ calls[i].pc = "fetch"
    /\ calls' = [calls EXCEPT ![i] = responded(calls[i], st)]
    /\ UNCHANGED <<serviceInstance, nextId>>

\* The body of caller i's response has been read.
BodyRead(i) ==
    /\ calls[i].pc = "body"
    /\ calls' = [calls EXCEPT ![i] =
                    bodyRead(calls[i], [event |-> Answer(calls[i].status), by |-> i],
                             calls[i].status, bodyOf(calls[i].status))]
    /\ UNCHANGED <<serviceInstance, nextId>>

\* The fetch of caller i rejects with a transport exception.
Rejects(i, exc) ==
    /\ calls[i].pc = "fetch"
    /\ calls' = [calls EXCEPT ![i] =
                    thrown(calls[i], [event |-> Rejection(exc), by |-> i],
                           callApiCatch(exc))]
    /\ UNCHANGED <<serviceInstance, nextId>>

\* The timeout of caller i's attempt fires: controller.abort() (line 175)
\* rejects, with an AbortError, every pending fetch or body read whose
\* signal belongs to that controller.
Aborts(i) ==
    /\ calls[i].timeoutTimer # NoController
    /\ calls' =
          [j \in Callers |->
              IF calls[j].pc \in {"fetch", "body"}
                 /\ calls[j].controller = calls[i].timeoutTimer
              THEN thrown(calls[j], [event |-> Timeout, by |-> i],
                          callApiCatch(AbortError))
              ELSE IF j = i
              THEN [calls[j] EXCEPT !.timeoutTimer = NoController]
              ELSE calls[j]]
    /\ UNCHANGED <<serviceInstance, nextId>>

\* The backoff of caller i has elapsed: callApiWithRetry(request, requestId,
\* attempt + 1) (line 131).
Resumes(i) ==
    /\ calls[i].pc = "backoff"
    /\ calls' = [calls EXCEPT ![i] =
                    issue([calls[i] EXCEPT !.delayTimer = 0], i,
                          calls[i].attempt + 1)]
    /\ UNCHANGED <<serviceInstance, nextId>>

ServiceOnly == UNCHANGED <<pipelineVars, unitVars, hook, app>>

ServiceNext ==
    \/ \E i \in Callers : Transcribe(i) /\ ServiceOnly
    \/ \E i \in Callers, st \in ServiceStatuses : Responds(i, st) /\ ServiceOnly
    \/ \E i \in Callers : BodyRead(i) /\ ServiceOnly
    \/ \E i \in Callers, exc \in ServiceExceptions : Rejects(i, exc) /\ ServiceOnly
    \/ \E i \in Callers : Aborts(i) /\ ServiceOnly
    \/ \E i \in Callers : Resumes(i) /\ ServiceOnly

ServiceSpec == ServiceInit /\ [][ServiceNext]_vars

\* ------------------------------------------------- single function calls
\* One call of a function of utils/audio.ts, of the error handler, of the
\* retry loop's catch block or of callApi's error-response branch, on
\* arguments drawn from the sets below.
MaxBufferLength == 3

UnitMimeTypes ==
    { <<"audio/webm", "codecs=opus">>, <<"audio/WAV">>, <<"audio/mpeg">>,
      <<"audio/ogg ", "codecs=opus">>, <<"video/webm">>, <<"audio/aac">>,
      <<"">>, <<"constructor">> }

UnitFilenames ==
    { <<"clip", "mp3">>, <<"a", "b", "MP3">>, <<"x", "mpeg">>, <<"voice", "opus">>,
      <<"", "wav">>, <<"note">>, <<"clip", "">>, <<"clip", "bad">> }

AudioInputs ==
    [fn : {"audio"}, bufferLength : 0..MaxBufferLength,
     maxSizeBytes : {0, MaxBufferLength - 1}, mimeType : UnitMimeTypes,
     filename : UnitFilenames, format : SUPPORTED_AUDIO_FORMATS]

\* Errors of every kind, built with different messages and details, and
\* errors that are no ApplicationError.
ErrorSamples ==
    { ValidationError(<<"Audio file is too small">>),
      ValidationError(<<"Audio file is empty">>),
      InvalidAudioFormatError(<<"audio/aac">>),
      InvalidAudioFormatError(<<"application/octet-stream">>),
      FileTooLargeError(1, 0),
      FileTooLargeError(maxFileSizeBytes + 1, maxFileSizeBytes),
      MissingAudioError,
      TranscriptionError(<<"API", "returned", "empty", "response">>, [requestId |-> 1]),
      TranscriptionError(<<"read", "ETIMEDOUT">>, NoDetails),
      ProviderError("Groq", <<"Rate", "limit", "exceeded">>,
                    [status |-> 429, retryable |-> TRUE]),
      ProviderError("Groq", <<"read", "ECONNRESET">>,
                    [status |-> 404, retryable |-> FALSE]),
      ProviderError("Groq", <<"Bad", "Gateway">>, NoDetails),
      TimeoutError(<<"Groq", "API", "call">>, timeoutMs),
      TimeoutError(<<"upload">>, 1),
      NativeError("MulterError", "MulterError", <<"File too large">>),
      NativeError("Error", "Error", <<"Invalid file type">>),
      NativeError("Error", "Error", <<"Not allowed by", "CORS">>),
      NativeError("SyntaxError", "SyntaxError", <<"Unexpected", "token">>) }

\* What an attempt can throw at the retry loop: the errors above, transport
\* exceptions, and thrown values that are no Error (a string, an object
\* with a message).
ThrownSamples ==
    ErrorSamples \cup FetchExceptions \cup BodyExceptions
    \cup { NativeError("SyntaxError", "SyntaxError",
                       <<"Unexpected", "token", "ENOTFOUND">>),
           NativeError("NotAnError", "", <<"read", "ECONNRESET">>),
           NativeError("NotAnError", "", <<"aborted">>) }

\* Bodies of non-success responses: those of the pipeline, JSON null, and a
\* JSON error whose message is the empty string.
UnitErrorBodies ==
    ErrorBodies
    \cup { [raw |-> <<"null">>, isJson |-> TRUE, isObject |-> FALSE,
            errorMessage |-> <<>>],
           ErrorBody(<<"{error:{message:}}">>, TRUE, <<<<>>>>) }

\* Origin headers: absent, empty, listed, a Netlify site, the bare suffix,
\* and origins that are neither; the three values of NODE_ENV.
UnitOrigins ==
    { <<>>, <<"">>, <<"http://localhost:5173">>, <<"https://dictation.netlify.app">>,
      <<".netlify.app">>, <<"https://netlify.app.example.com">>,
      <<"http://localhost:5173/">>, <<"null">> }

NodeEnvs == {"development", "production", "test"}

UnitInputs ==
    AudioInputs
    \cup [fn : {"cors"}, origin : UnitOrigins, nodeEnv : NodeEnvs]
    \cup [fn : {"error"}, error : ErrorSamples]
    \cup [fn : {"catch"}, error : ThrownSamples, attempt : 1..MAX_RETRIES]
    \cup [fn : {"response"}, status : NonOkStatuses, body : UnitErrorBodies]

\* callApiWithRetry's catch block (lines 115-135) and transcribe's, which
\* rethrows (line 101): wait and call again, or throw the value caught.
retryLoopCatch(error, n) ==
    IF shouldRetry(error, n)
    THEN [retry |-> TRUE, delayMs |-> retryDelayMs(n), next |-> n + 1]
    ELSE [retry |-> FALSE, thrown |-> error]

UnitInit ==
    /\ PipelineIdle
    /\ ServiceIdle
    /\ BrowserIdle
    /\ input \in UnitInputs
    /\ output = <<>>

Validate ==
    /\ input.fn = "audio" /\ output = <<>>
    /\ output' = <<[fn |-> "validateAudioFile",
                    value |-> validateAudioFile(input.bufferLength, input.mimeType,
                                                input.filename, input.maxSizeBytes)]>>
    /\ UNCHANGED input

Detect ==
    /\ input.fn = "audio" /\ output = <<>>
    /\ output' = <<[fn |-> "detectAudioFormat",
                    value |-> detectAudioFormat(input.mimeType, input.filename)]>>
    /\ UNCHANGED input

Normalize ==
    /\ input.fn = "audio" /\ output = <<>>
    /\ output' = <<[fn |-> "normalizeFilename",
                    value |-> normalizeFilename(input.filename, input.format)]>>
    /\ UNCHANGED input

\* normalizeFilename applied to its own result, with the same format.
NormalizeAgain ==
    /\ output # <<>> /\ output[1].fn = "normalizeFilename"
    /\ output' = <<[fn |-> "normalizeFilename twice", once |-> output[1].value,
                    value |-> normalizeFilename(output[1].value, input.format)]>>
    /\ UNCHANGED input

HandleError ==
    /\ input.fn = "error" /\ output = <<>>
    /\ output' = <<[fn |-> "errorHandler", value |-> errorHandler(input.error)]>>
    /\ UNCHANGED input

CatchInRetryLoop ==
    /\ input.fn = "catch" /\ output = <<>>
    /\ output' = <<[fn |-> "callApiWithRetry",
                    value |-> retryLoopCatch(input.error, input.attempt)]>>
    /\ UNCHANGED input

ReadErrorResponse ==
    /\ input.fn = "response" /\ output = <<>>
    /\ output' = <<[fn |-> "callApi",
                    value |-> callApiCatch(errorForStatus(input.status, input.body))]>>
    /\ UNCHANGED input

CheckOrigin ==
    /\ input.fn = "cors" /\ output = <<>>
    /\ output' = <<[fn |-> "getCorsOptions.origin",
                    value |-> corsOrigin(input.origin, input.nodeEnv)]>>
    /\ UNCHANGED input

UnitOnly == UNCHANGED <<pipelineVars, serviceVars, hook, app>>

UnitNext ==
    \/ Validate /\ UnitOnly
    \/ Detect /\ UnitOnly
    \/ Normalize /\ UnitOnly
    \/ NormalizeAgain /\ UnitOnly
    \/ HandleError /\ UnitOnly
    \/ CatchInRetryLoop /\ UnitOnly
    \/ ReadErrorResponse /\ UnitOnly
    \/ CheckOrigin /\ UnitOnly

UnitSpec == UnitInit /\ [][UnitNext]_vars

\* ------------------------------------------------- the browser: the hook
\* hooks/useAudioRecorder.ts. A call of startRecording that asks for the
\* microphone is numbered; the stream it is granted, the MediaRecorder built
\* on it, its duration interval and its audio-level loop carry that number.
MaxStarts == 2

\* useState (state, audioBlob, error), the refs, and the browser's side:
\* getUserMedia calls pending, streams with live tracks, recorders recording,
\* recorders whose stop event is due, intervals set, audio-level loops with
\* an animation frame scheduled.
IdleHook ==
    [isSupported |-> TRUE, state |-> "idle", audioBlob |-> <<>>, error |-> <<>>,
     mediaRecorderRef |-> 0, streamRef |-> 0, durationIntervalRef |-> 0,
     audioContextRef |-> 0, analyserRef |-> 0, animationFrameRef |-> 0,
     starts |-> 0, pending |-> {}, streams |-> {}, recording |-> {},
     stopping |-> {}, intervals |-> {}, frames |-> {}]

\* mediaRecorderRef.current.stop() where the code guards it by the recorder's
\* state: a recorder that is recording becomes inactive, its stop event due.
stopRecorder(h) ==
    IF h.mediaRecorderRef \in h.recording
    THEN [h EXCEPT !.recording = @ \ {h.mediaRecorderRef},
                   !.stopping = @ \cup {h.mediaRecorderRef}]
    ELSE h

\* cleanup (lines 99-130).
cleanup(h) ==
    [stopRecorder(h) EXCEPT
        !.frames = @ \ {h.animationFrameRef}, !.animationFrameRef = 0,
        !.intervals = @ \ {h.durationIntervalRef}, !.durationIntervalRef = 0,
        !.analyserRef = IF h.audioContextRef # 0 THEN 0 ELSE @,
        !.audioContextRef = 0,
        !.mediaRecorderRef = 0,
        !.streams = @ \ {h.streamRef}, !.streamRef = 0]

\* startRecording up to `await getUserMedia` (lines 177-197).
\* Variant: the previous recording is not cleared.
startRecordingKeepsBlob(h) ==
    IF ~h.isSupported
    THEN [h EXCEPT !.error = <<"not supported">>, !.state = "error"]
    ELSE [h EXCEPT !.error = <<>>, !.state = "requesting",
                   !.starts = @ + 1, !.pending = @ \cup {h.starts + 1}]

startRecording(h) ==
    IF ~h.isSupported
    THEN [h EXCEPT !.error = <<"not supported">>, !.state = "error"]
    ELSE [h EXCEPT !.error = <<>>, !.state = "requesting", !.audioBlob = <<>>,
                   !.starts = @ + 1, !.pending = @ \cup {h.starts + 1}]

\* startRecording after getUserMedia resolved with stream k (lines 199-246):
\* the recorder is built and started, the audio-level loop and the duration
\* interval are set up.
recorderStarted(h, k) ==
    [h EXCEPT !.pending = @ \ {k},
              !.streams = @ \cup {k}, !.streamRef = k,
              !.mediaRecorderRef = k,
              !.audioContextRef = k, !.analyserRef = k,
              !.frames = @ \cup {k}, !.animationFrameRef = k,
              !.recording = @ \cup {k},
              !.state = "recording",
              !.durationIntervalRef = k, !.intervals = @ \cup {k}]

\* startRecording's catch block (lines 248-265); `granted` when the stream
\* was obtained and building the MediaRecorder threw.
startFailed(h, k, granted) ==
    LET got == IF granted
               THEN [h EXCEPT !.pending = @ \ {k}, !.streams = @ \cup {k},
                              !.streamRef = k]
               ELSE [h EXCEPT !.pending = @ \ {k}]
    IN  [cleanup(got) EXCEPT !.error = <<"Failed to access microphone">>,
                             !.state = "error"]

\* stopRecording (lines 269-299): mediaRecorderRef and analyserRef are kept.
\* Variant: what stopRecording would do by calling cleanup.
stopRecordingCleansUp(h) == [cleanup(h) EXCEPT !.state = "idle"]

stopRecording(h) ==
    [stopRecorder(h) EXCEPT
        !.intervals = @ \ {h.durationIntervalRef}, !.durationIntervalRef = 0,
        !.frames = @ \ {h.animationFrameRef}, !.animationFrameRef = 0,
        !.streams = @ \ {h.streamRef}, !.streamRef = 0,
        !.audioContextRef = 0,
        !.state = "idle"]

\* reset (lines 302-310).
reset(h) ==
    [cleanup(h) EXCEPT !.state = "idle", !.audioBlob = <<>>, !.error = <<>>]

\* A recording: the Blob built by recorder r's onstop. `enough` says whether
\* it has at least 1024 bytes and lasted at least half a second.
Blob(r, enough) == [id |-> r, enough |-> enough]

\* mediaRecorder.onstop (lines 213-217).
onstop(h, r, enough) ==
    [h EXCEPT !.recording = @ \ {r}, !.stopping = @ \ {r},
              !.audioBlob = <<Blob(r, enough)>>]

\* mediaRecorder.onerror (lines 219-224); the browser has made the recorder
\* inactive, its stop event follows.
onerror(h, r) ==
    [cleanup([h EXCEPT !.recording = @ \ {r}, !.stopping = @ \cup {r}])
        EXCEPT !.error = <<"Recording error occurred">>, !.state = "error"]

\* updateLevel (lines 153-168), run by the animation frame of loop l: it
\* ends the loop when the analyser is gone, else schedules the next frame.
updateLevel(h, l) ==
    IF h.analyserRef = 0 THEN [h EXCEPT !.frames = @ \ {l}]
    ELSE [h EXCEPT !.animationFrameRef = l]

\* ---------------------------------------------------- the browser: App
\* App's useState (appState, error, transcription), processingBlobRef, the
\* transcription requests in flight, the dependencies its two effects saw at
\* the last commit, and the calls of handleTranscribe made so far.
IdleApp ==
    [appState |-> "idle", error |-> <<>>, transcription |-> 0,
     processingBlobRef |-> 0, inflight |-> {},
     seen |-> [sync |-> <<"idle", <<>>>>, blob |-> <<<<>>, "idle">>],
     invoked |-> <<>>]

\* handleTranscribe up to `await transcriptionApi.transcribe` (lines 456-471),
\* called for a blob that is `fresh` (it appeared since the last commit)
\* while the recorder's state is recorderState.
handleTranscribe(a, blob, recorderState, fresh) ==
    LET called == [a EXCEPT !.invoked =
                      Append(@, [blob |-> blob.id, appState |-> a.appState,
                                 recorderState |-> recorderState,
                                 fresh |-> fresh, sent |-> blob.enough])]
    IN  IF ~blob.enough
        THEN [called EXCEPT !.error = <<"Recording too short">>,
                            !.appState = "error"]
        ELSE [called EXCEPT !.appState = "processing", !.error = <<>>,
                            !.inflight = @ \cup {blob.id}]

\* The effect that syncs the recorder's state into appState (lines 436-445).
syncEffect(a, h) ==
    CASE h.state = "recording" -> [a EXCEPT !.appState = "recording"]
      [] h.state = "requesting" -> [a EXCEPT !.appState = "requesting"]
      [] h.state = "error" -> [a EXCEPT !.appState = "error", !.error = h.error]
      [] OTHER -> a

\* The effect that starts the transcription (lines 448-453); `rendered` is
\* the appState of the render the effect belongs to, the ref is read when
\* the effect runs.
blobEffect(a, h, rendered, fresh) ==
    IF /\ h.audioBlob # <<>>
       /\ h.audioBlob[1].id # a.processingBlobRef
       /\ rendered = "recording"
    THEN handleTranscribe([a EXCEPT !.processingBlobRef = h.audioBlob[1].id,
                                    !.appState = rendered],
                          h.audioBlob[1], h.state, fresh)
    ELSE a

\* A commit: the effects whose dependencies changed run in order, on the
\* values of that render; the state they set is rendered and committed in
\* turn, until nothing changes.
RECURSIVE settle(_, _)
settle(a, h) ==
    LET sync == <<h.state, h.error>>
        blob == <<h.audioBlob, a.appState>>
        a0 == [a EXCEPT !.seen = [sync |-> sync, blob |-> blob]]
        a1 == IF sync # a.seen.sync THEN syncEffect(a0, h) ELSE a0
        a2 == IF blob # a.seen.blob
              THEN blobEffect(a1, h, a.appState, h.audioBlob # a.seen.blob[1])
              ELSE a1
    IN  IF a2.appState = a.appState THEN a2 ELSE settle(a2, h)

\* handleStart (lines 495-500), handleReset (508-514), handleDismissError
\* (517-522): what they set in App; the recorder's part is the hook's.
handleStart(a) ==
    [a EXCEPT !.error = <<>>, !.transcription = 0, !.processingBlobRef = 0]

handleReset(a) ==
    [a EXCEPT !.transcription = 0, !.error = <<>>, !.appState = "idle",
              !.processingBlobRef = 0]

handleDismissError(a) ==
    [a EXCEPT !.error = <<>>,
              !.appState = IF a.appState = "error" THEN "idle" ELSE @]

\* ------------------------------------------ the browser: events and calls
\* Every event runs its handler and then the render and the effects it
\* causes, before the next event is taken. Without an App (HookSpec) the
\* hook is driven by calls of its three functions.
Rendered == app' = IF app = <<>> THEN app ELSE settle(app, hook')

\* getUserMedia resolves for the k-th startRecording.
MicrophoneGranted(k) ==
    /\ k \in hook.pending
    /\ hook' = recorderStarted(hook, k)
    /\ Rendered

\* getUserMedia rejects, or the MediaRecorder cannot be built on the stream.
StartFails(k, granted) ==
    /\ k \in hook.pending
    /\ hook' = startFailed(hook, k, granted)
    /\ Rendered

\* Recorder r fires its stop event: after stop() was called on it, or, while
\* it is recording, because the tracks of its stream ended (the microphone
\* was unplugged, the permission revoked).
RecorderStops(r, enough) ==
    /\ r \in hook.stopping \cup hook.recording
    /\ hook' = onstop([hook EXCEPT !.streams =
                          IF r \in hook.recording THEN @ \ {r} ELSE @],
                      r, enough)
    /\ Rendered

\* Recorder r fails while recording: the browser makes it inactive and
\* fires error, then stop, in one task.
RecorderError(r, enough) ==
    /\ r \in hook.recording
    /\ hook' = onstop(onerror(hook, r), r, enough)
    /\ Rendered

\* The duration interval k finds maxDuration elapsed (lines 238-246).
DurationElapses(k) ==
    /\ k \in hook.intervals
    /\ hook' = stopRecording(hook)
    /\ Rendered

\* The animation frame of audio-level loop l runs.
FrameFires(l) ==
    /\ l \in hook.frames
    /\ hook' = updateLevel(hook, l)
    /\ Rendered

\* Calls of the hook's functions by whatever component uses it.
StartRecording ==
    /\ hook.starts < MaxStarts
    /\ hook' = startRecording(hook)
    /\ Rendered

StopRecording ==
    /\ hook' = stopRecording(hook)
    /\ Rendered

Reset ==
    /\ hook' = reset(hook)
    /\ Rendered

\* RecordingButton.handleClick (lines 34-45) with the props App passes it
\* (lines 672-678): handleStop while appState is recording, else handleStart.
ClickRecord ==
    /\ hook.isSupported
    /\ app.appState \notin {"processing", "requesting"}
    /\ IF app.appState = "recording"
       THEN /\ hook' = stopRecording(hook)
            /\ app' = settle(app, hook')
       ELSE /\ hook.starts < MaxStarts
            /\ hook' = startRecording(hook)
            /\ app' = settle(handleStart(app), hook')

\* "Try again" of the error message, or the reset of the result shown.
ClickReset ==
    /\ app.error # <<>> \/ (app.appState = "complete" /\ app.transcription # 0)
    /\ hook' = reset(hook)
    /\ app' = settle(handleReset(app), hook')

\* The dismiss button of the error message.
ClickDismiss ==
    /\ app.error # <<>>
    /\ hook' = hook
    /\ app' = settle(handleDismissError(app), hook)

\* transcriptionApi.transcribe(blob) resolves (lines 471-473) or rejects
\* (lines 474-491).
TranscriptionResolves(b) ==
    /\ b \in app.inflight
    /\ hook' = hook
    /\ app' = settle([app EXCEPT !.inflight = @ \ {b}, !.transcription = b,
                                 !.appState = "complete"], hook)

TranscriptionRejects(b) ==
    /\ b \in app.inflight
    /\ hook' = hook
    /\ app' = settle([app EXCEPT !.inflight = @ \ {b},
                                 !.error = <<"Failed to transcribe audio">>,
                                 !.appState = "error"], hook)

BrowserOnly == UNCHANGED <<pipelineVars, serviceVars, unitVars>>

BrowserEvents ==
    \/ \E k \in 1..MaxStarts : MicrophoneGranted(k) /\ BrowserOnly
    \/ \E k \in 1..MaxStarts, granted \in BOOLEAN : StartFails(k, granted) /\ BrowserOnly
    \/ \E r \in 1..MaxStarts, enough \in BOOLEAN : RecorderStops(r, enough) /\ BrowserOnly
    \/ \E r \in 1..MaxStarts, enough \in BOOLEAN : RecorderError(r, enough) /\ BrowserOnly
    \/ \E k \in 1..MaxStarts : DurationElapses(k) /\ BrowserOnly
    \/ \E l \in 1..MaxStarts : FrameFires(l) /\ BrowserOnly

HookInit ==
    /\ PipelineIdle /\ ServiceIdle /\ UnitIdle
    /\ hook \in {[IdleHook EXCEPT !.isSupported = s] : s \in BOOLEAN}
    /\ app = <<>>

HookNext ==
    \/ BrowserEvents
    \/ StartRecording /\ BrowserOnly
    \/ StopRecording /\ BrowserOnly
    \/ Reset /\ BrowserOnly

HookSpec == HookInit /\ [][HookNext]_vars

AppInit ==
    /\ PipelineIdle /\ ServiceIdle /\ UnitIdle
    /\ hook \in {[IdleHook EXCEPT !.isSupported = s] : s \in BOOLEAN}
    /\ app = IdleApp

AppNext ==
    \/ BrowserEvents
    \/ ClickRecord /\ BrowserOnly
    \/ ClickReset /\ BrowserOnly
    \/ ClickDismiss /\ BrowserOnly
    \/ \E b \in 1..MaxStarts : TranscriptionResolves(b) /\ BrowserOnly
    \/ \E b \in 1..MaxStarts : TranscriptionRejects(b) /\ BrowserOnly

AppSpec == AppInit /\ [][AppNext]_vars

\* ------------------------------------------------------------- the claims
\* The error thrown by the i-th attempt that ended.
ErrorOf(i) == settled[i].error[1]

\* The i-th attempt that ended was followed by a retry or by its backoff.
Retried(i) ==
    \/ Len(outbound) > settled[i].n
    \/ i = Len(settled) /\ pc = "backoff" /\ delayTimer # 0

\* The i-th attempt that ended ended the invocation: its error went to the
\* caller, with no backoff started and no further call issued.
Surfaced(i) ==
    /\ i = Len(settled)
    /\ pc = "done"
    /\ delivered = <<[kind |-> "error", error |-> ErrorOf(i)]>>
    /\ Len(outbound) = settled[i].n
    /\ Len(started) = settled[i].n - 1
    /\ delayTimer = 0

\* Retryability as the specification words it: by status, by kind, by message.
RetryableAsSpecified(e) ==
    \/ /\ e.cls = "ProviderError"
       /\ "status" \in DOMAIN e.details
       /\ (e.details["status"] = 429 \/ e.details["status"] >= 500)
    \/ e.cls = "TimeoutError"
    \/ /\ e.cls \in {"Error", "TypeError", "SyntaxError", "DOMException"}
       /\ \E w \in {"ECONNRESET", "ETIMEDOUT", "ENOTFOUND"} : includes(e.message, w)

All429 ==
    /\ settled # <<>>
    /\ \A i \in 1..Len(settled) :
          settled[i].via = "errorBody" /\ settled[i].status = 429

\* C1: when every upstream response of an invocation has status 429, the
\* client issues exactly 3 HTTP attempts, waits 1000 ms before attempt 2 and
\* 2000 ms before attempt 3, starts no wait after attempt 3, and only then
\* hands the error to the caller.
C1_RateLimitedThreeAttempts ==
    All429 =>
       /\ Len(settled) <= 3
       /\ started = SubSeq(<<1000, 2000>>, 1, IF Len(settled) < 3 THEN Len(settled) ELSE 2)
       /\ Len(settled) < 3 =>
             /\ pc \in {"backoff", "fetch", "body"}
             /\ delivered = <<>>
             /\ pc = "backoff" => /\ delayTimer = started[Len(started)]
                                  /\ waits = SubSeq(started, 1, Len(started) - 1)
                                  /\ Len(outbound) = Len(settled)
             /\ pc # "backoff" => /\ waits = started
                                  /\ Len(outbound) = Len(settled) + 1
       /\ Len(settled) = 3 =>
             /\ pc = "done"
             /\ Len(outbound) = 3
             /\ waits = <<1000, 2000>>
             /\ delayTimer = 0
             /\ delivered = <<[kind |-> "error", error |-> ErrorOf(3)]>>
             /\ ErrorOf(3).cls = "ProviderError"

C1_Witness == All429 /\ Len(settled) = 3 /\ pc = "done"

\* C2: an invocation issues at least 1 and at most 3 HTTP attempts; the
\* attempt counter starts at 1 and grows by exactly 1 per retry; no attempt
\* is issued after one that succeeded or failed with a non-retryable error.
C2_AttemptsBounded ==
    /\ request = <<>> => outbound = <<>>
    /\ request # <<>> =>
          /\ Len(outbound) >= 1
          /\ Len(outbound) <= 3
          /\ attempt = Len(outbound)
          /\ attempt = Len(waits) + 1
          /\ Len(outbound) = Len(settled) + inflight
          /\ \A i \in 1..Len(settled) :
                /\ settled[i].n = i
                /\ (~settled[i].threw \/ ~RetryableAsSpecified(ErrorOf(i))) =>
                      /\ i = Len(settled)
                      /\ Len(outbound) = i
                      /\ pc = "done"

C2_Witness ==
    /\ pc = "done"
    /\ Len(outbound) = 3
    /\ settled[1].via = "abort"
    /\ settled[2].via = "fetchRejects"
    /\ ~settled[3].threw

\* C3: a 404 (or another non-retryable 4xx status) is raised at once, on
\* whichever attempt it arrives: no backoff is started and no call follows.
C3_ClientErrorNotRetried ==
    \A i \in 1..Len(settled) :
       (/\ settled[i].via = "errorBody"
        /\ settled[i].status >= 400
        /\ settled[i].status < 500
        /\ settled[i].status # 429) =>
          /\ Surfaced(i)
          /\ ErrorOf(i).cls = "ProviderError"

C3_Witness ==
    /\ Len(settled) = 3
    /\ settled[3].via = "errorBody"
    /\ settled[3].status = 404
    /\ pc = "done"

\* C4: a non-success status s raises a ProviderError carrying status s; the
\* retry loop treats it as retryable iff s = 429 or s >= 500; the flag set
\* at construction is the one isRetryableError reads back from the details.
C4_ProviderErrorStatusAndFlag ==
    \A i \in 1..Len(settled) :
       settled[i].via = "errorBody" =>
          LET e == ErrorOf(i)
              s == settled[i].status
              retryable == (s = 429 \/ s >= 500)
          IN  /\ e.cls = "ProviderError"
              /\ DOMAIN e.details = {"provider", "status", "retryable"}
              /\ e.details["status"] = s
              /\ e.details["provider"] = "Groq"
              /\ e.details["retryable"] = retryable
              /\ isRetryableError(e) = retryable
              /\ settled[i].n < 3 => (Retried(i) <=> retryable)
              /\ ~Retried(i) => Surfaced(i)

C4_Witness ==
    /\ Len(settled) = 2
    /\ settled[1].via = "errorBody"
    /\ settled[1].status = 503
    /\ settled[2].via = "errorBody"
    /\ settled[2].status = 302
    /\ pc = "done"

\* C5: an attempt aborted by its timeout raises a TimeoutError whose
\* timeoutMs is the configured per-attempt timeout; it is retried while the
\* attempt count is below 3 and reaches the caller only from attempt 3.
C5_TimeoutRetried ==
    /\ \A i \in 1..Len(settled) :
          settled[i].via = "abort" =>
             /\ ErrorOf(i).cls = "TimeoutError"
             /\ ErrorOf(i).details = [operation |-> <<"Groq", "API", "call">>,
                                      timeoutMs |-> AUDIO_TIMEOUT_MS]
             /\ settled[i].n < 3 => Retried(i)
             /\ settled[i].n = 3 => Surfaced(i)
    /\ \A j \in 1..Len(delivered) :
          (delivered[j].kind = "error" /\ delivered[j].error.cls = "TimeoutError") =>
             /\ settled[Len(settled)].via = "abort"
             /\ settled[Len(settled)].n = 3

C5_Witness ==
    /\ pc = "done"
    /\ Len(settled) = 3
    /\ settled[3].via = "abort"
    /\ delivered[1].error.cls = "TimeoutError"

\* C6: a 2xx body without a text field raises TranscriptionError and is not
\* retried; a 2xx body whose text is the empty string succeeds with the
\* empty string as the result text.
C6_MissingTextVersusEmptyText ==
    \A i \in 1..Len(settled) :
       (settled[i].data # <<>> /\ settled[i].data[1].isJson
        /\ settled[i].data[1].isObject) =>
          LET text == settled[i].data[1].text
          IN  /\ text = <<>> =>
                    /\ settled[i].threw
                    /\ ErrorOf(i).cls = "TranscriptionError"
                    /\ Surfaced(i)
              /\ text = <<JString(<<>>)>> =>
                    /\ ~settled[i].threw
                    /\ i = Len(settled)
                    /\ pc = "done"
                    /\ Len(delivered) = 1
                    /\ delivered[1].kind = "result"
                    /\ delivered[1].result.text = <<>>

C6_Witness ==
    /\ pc = "done"
    /\ Len(settled) = 2
    /\ settled[2].data # <<>>
    /\ settled[2].data[1].isObject
    /\ settled[2].data[1].text = <<>>
    /\ delivered[1].kind = "error"
    /\ delivered[1].error.cls = "TranscriptionError"


ClassifiedErrors ==
    {"ProviderError", "TimeoutError", "TranscriptionError", "ValidationError",
     "InvalidAudioFormatError", "FileTooLargeError", "MissingAudioError"}

C8_CallerGetsFinalErrorOnly ==
    /\ Len(delivered) <= 1
    /\ pc # "done" => delivered = <<>>
    /\ \A j \in 1..Len(delivered) :
          /\ settled # <<>>
          /\ delivered[j].kind = "error" =>
                /\ settled[Len(settled)].threw
                /\ delivered[j].error = ErrorOf(Len(settled))
          /\ ~settled[Len(settled)].threw => delivered[j].kind = "result"

\* C9: a POST /api/transcribe with no file, an empty buffer, a buffer longer
\* than the configured maximum or an undetectable audio format never causes
\* an outbound HTTP call: it is answered with the validation error before
\* the transcription service is invoked, and nothing is retried.
C9_InvalidUploadNeverCallsUpstream ==
    httpRequest # <<>> =>
       LET h == httpRequest[1]
       IN  (\/ h.file = <<>>
            \/ h.file[1].size = 0
            \/ h.file[1].size > MAX_AUDIO_SIZE_MB * 1024 * 1024
            \/ detectAudioFormat(h.file[1].mimetype, h.file[1].originalname) = <<>>) =>
              /\ outbound = <<>>
              /\ request = <<>>
              /\ pc = "idle"
              /\ attempt = 0
              /\ inflight = 0
              /\ started = <<>>
              /\ delivered = <<>>
              /\ httpResponse # <<>>
              /\ httpResponse[1].code \in {"MISSING_AUDIO", "VALIDATION_ERROR",
                                           "FILE_TOO_LARGE", "INVALID_AUDIO_FORMAT"}

C9_Witness ==
    /\ httpRequest # <<>>
    /\ httpRequest[1].file # <<>>
    /\ httpRequest[1].file[1].size = MIN_FILE_SIZE
    /\ detectAudioFormat(httpRequest[1].file[1].mimetype,
                         httpRequest[1].file[1].originalname) = <<>>
    /\ httpResponse = <<[status |-> 400, code |-> "INVALID_AUDIO_FORMAT"]>>
    /\ outbound = <<>>

\* C10: within one invocation at most one outbound HTTP call is in flight:
\* attempt k+1 starts only after attempt k has ended (completed or aborted)
\* and after the whole backoff delay that follows attempt k has elapsed.
C10_OneCallInFlight ==
    /\ inflight <= 1
    /\ pc \in {"fetch", "body"} =>
          /\ inflight = 1
          /\ Len(settled) = attempt - 1
          /\ \A i \in 1..Len(settled) : settled[i].n = i
          /\ delayTimer = 0
          /\ waits = started
          /\ Len(waits) = attempt - 1
          /\ \A k \in 1..Len(waits) : waits[k] = 1000 * Pow(2, k - 1)
    /\ pc \in {"idle", "backoff", "done"} => inflight = 0
    /\ pc = "backoff" =>
          /\ Len(settled) = attempt
          /\ delayTimer = started[Len(started)]
          /\ Len(started) = attempt
          /\ waits = SubSeq(started, 1, attempt - 1)

C10_Witness ==
    /\ pc = "fetch"
    /\ attempt = 3
    /\ inflight = 1
    /\ waits = <<1000, 2000>>
    /\ settled[1].via = "abort"
    /\ settled[2].via = "errorBody"


\* One invocation run alone: caller i, holding identifier id, meets the
\* upstream events `events` in order, one per attempt, with nobody else
\* calling the service.
RECURSIVE alone(_, _, _)
alone(c, i, events) ==
    IF events = <<>> THEN c
    ELSE LET at == IF c.pc = "backoff"
                   THEN issue([c EXCEPT !.delayTimer = 0], i, c.attempt + 1)
                   ELSE c
             e == Head(events)
             cause == [event |-> e, by |-> i]
             after == IF at.pc = "done" THEN at
                      ELSE IF e.kind = "timeout"
                      THEN thrown(at, cause, callApiCatch(AbortError))
                      ELSE IF e.kind = "rejection"
                      THEN thrown(at, cause, callApiCatch(e.exc))
                      ELSE bodyRead(responded(at, e.status), cause, e.status,
                                    bodyOf(e.status))
         IN  alone(after, i, Tail(events))

firstCall(i, id) ==
    issue([IdleCall EXCEPT !.request = <<requestOf(i)>>, !.requestId = id], i, 1)

eventsOf(seen) == [k \in 1..Len(seen) |-> seen[k].cause.event]

\* C11: concurrent invocations on the shared service instance are
\* independent under every interleaving: each has its own attempt counter,
\* request identifier, abort controller and timer; its attempts, backoff
\* delays and outcome are those of a run alone against the same upstream
\* events; no attempt of one is ended by the timer or response of another.
C11_InvocationsIndependent ==
    /\ serviceInstance <= 1
    /\ \A i \in Callers :
          LET c == calls[i]
          IN  /\ \A k \in 1..Len(c.seen) : c.seen[k].cause.by = i
              /\ c.pc # "idle" =>
                    /\ serviceInstance = 1
                    /\ c.request = <<requestOf(i)>>
                    /\ c.attempt = Len(c.sent)
                    /\ c.attempt \in 1..MAX_RETRIES
                    /\ c.timeoutTimer \in {NoController, c.controller}
                    /\ \A k \in 1..Len(c.sent) : c.sent[k] = BuildFormData(requestOf(i))
              /\ c.pc \in {"backoff", "done"} =>
                    c = alone(firstCall(i, c.requestId), i, eventsOf(c.seen))
              /\ (c.pc = "done" /\ c.outcome[1].kind = "result") =>
                    c.outcome[1].result.requestId = c.requestId
              /\ \A j \in Callers \ {i} :
                    /\ (c.pc # "idle" /\ calls[j].pc # "idle") =>
                          c.requestId # calls[j].requestId
                    /\ (c.pc \in {"fetch", "body"} /\ calls[j].pc \in {"fetch", "body"}) =>
                          c.controller # calls[j].controller

\* Caller 2 started first and is still in the fetch of its first attempt;
\* meanwhile caller 1 started, timed out and was answered 429, and is in its
\* third attempt.
C11_Witness ==
    /\ calls[2].pc = "fetch" /\ calls[2].attempt = 1 /\ calls[2].requestId = 1
    /\ calls[1].pc = "fetch" /\ calls[1].attempt = 3 /\ calls[1].requestId = 2
    /\ eventsOf(calls[1].seen) = <<Timeout, Answer(429)>>
    /\ calls[1].started = <<1000, 2000>>
    /\ calls[2].seen = <<>>


\* t is w without its surrounding whitespace words.
IsTrimOf(t, w) ==
    /\ t # <<>> => (t[1] # " " /\ t[Len(t)] # " ")
    /\ \E a \in 1..(Len(w) + 1) :
          /\ t = SubSeq(w, a, a + Len(t) - 1)
          /\ \A k \in 1..Len(w) : (k < a \/ k >= a + Len(t)) => w[k] = " "

\* C12: on success the result comes from the response of the successful
\* (last) attempt only: text is the upstream text without surrounding
\* whitespace; language is upstream's when present, else the requested one
\* when present, else "auto"; audioDurationSeconds is upstream's duration
\* unchanged (absent when omitted); requestId is the identifier generated
\* once at call entry.
C12_ResultFromSuccessfulAttempt ==
    \A j \in 1..Len(delivered) :
       delivered[j].kind = "result" =>
          LET r == delivered[j].result
              last == settled[Len(settled)]
              d == last.data[1]
          IN  /\ ~last.threw
              /\ last.n = attempt
              /\ \A i \in 1..(Len(settled) - 1) : settled[i].threw
              /\ d.text[1].type = "string"
              /\ IsTrimOf(r.text, d.text[1].str)
              /\ d.language # <<>> => r.language = d.language[1]
              /\ (d.language = <<>> /\ request[1].language # <<>>) =>
                    r.language = request[1].language[1]
              /\ (d.language = <<>> /\ request[1].language = <<>>) =>
                    r.language = "auto"
              /\ r.audioDurationSeconds = d.duration
              /\ r.requestId = requestId
              /\ requestId = served

C12_Witness ==
    /\ pc = "done"
    /\ Len(settled) = 3
    /\ delivered[1].kind = "result"
    /\ settled[3].data[1].text = <<JString(<<" ", "hello", "world", " ">>)>>
    /\ settled[3].data[1].language = <<"fr">>
    /\ delivered[1].result.text = <<"hello", "world">>
    /\ delivered[1].result.language = "fr"
    /\ delivered[1].result.audioDurationSeconds = <<3>>
    /\ request[1].language = <<"en">>
    /\ served = 2


\* The call `fn` has been made on the arguments drawn.
Ran(fn) == output # <<>> /\ output[1].fn = fn

\* C13: for a buffer of length 0, validateAudioFile returns invalid with the
\* "empty" reason whatever the MIME type, the filename and maxSizeBytes (0
\* and unsupported formats included): emptiness is checked first.
C13_EmptyBufferFirst ==
    (Ran("validateAudioFile") /\ input.bufferLength = 0) =>
       output[1].value = [valid |-> FALSE, error |-> <<"Audio file is empty">>,
                          format |-> <<>>]

C13_Witness ==
    /\ Ran("validateAudioFile")
    /\ input.bufferLength = 0
    /\ input.maxSizeBytes = 0
    /\ input.mimeType = <<"audio/aac">>
    /\ input.filename = <<"clip", "bad">>
    /\ output[1].value.error = <<"Audio file is empty">>

\* C14: for a buffer longer than maxSizeBytes (a byte count, so >= 0),
\* validateAudioFile returns invalid with the "too large" reason whatever
\* the format; a non-empty buffer of exactly maxSizeBytes is not rejected
\* for its size and is valid when its format is detected.
C14_SizeLimitInclusive ==
    Ran("validateAudioFile") =>
       LET v == output[1].value
           detected == detectAudioFormat(input.mimeType, input.filename)
       IN  /\ input.bufferLength > input.maxSizeBytes =>
                 v = [valid |-> FALSE, error |-> <<"File size", "exceeds maximum">>,
                      format |-> <<>>]
           /\ (input.bufferLength = input.maxSizeBytes /\ input.bufferLength > 0) =>
                 /\ ~includes(v.error, "exceeds maximum")
                 /\ detected # <<>> => v.valid

C14_Witness ==
    /\ Ran("validateAudioFile")
    /\ input.bufferLength = input.maxSizeBytes
    /\ input.bufferLength > 0
    /\ input.mimeType = <<"audio/WAV">>
    /\ output[1].value = [valid |-> TRUE, error |-> <<>>, format |-> <<"wav">>]

\* C15: for a non-empty buffer within the size limit, validateAudioFile
\* returns invalid with the "unsupported format" reason iff
\* detectAudioFormat returns none; otherwise it returns valid with exactly
\* the format detected, a member of the closed supported set.
C15_UnsupportedIffUndetected ==
    (/\ Ran("validateAudioFile")
     /\ input.bufferLength > 0
     /\ input.bufferLength <= input.maxSizeBytes) =>
       LET v == output[1].value
           detected == detectAudioFormat(input.mimeType, input.filename)
       IN  /\ (~v.valid /\ includes(v.error, "Unsupported")) <=> detected = <<>>
           /\ detected # <<>> =>
                 /\ v.valid
                 /\ v.format = detected
                 /\ v.format[1] \in SUPPORTED_AUDIO_FORMATS

\* The keys of the MIME table, and the MIME type as looked up: lowercased,
\* its parameter suffix stripped (and surrounding whitespace with it).
MimeTableKeys ==
    {"audio/flac", "audio/x-flac", "audio/mp3", "audio/mpeg", "audio/mp4",
     "audio/m4a", "audio/x-m4a", "audio/ogg", "audio/vorbis", "audio/wav",
     "audio/wave", "audio/x-wav", "audio/webm", "video/webm"}

LookedUpMime(mimeType) == trim(toLowerCase(Head(mimeType)))

\* C16: detectAudioFormat returns the MIME-table format whenever the MIME
\* type as looked up is in the MIME table, even when the filename's
\* extension maps to another format; the extension-table format only when
\* the MIME lookup fails; and none exactly when both lookups fail.
C16_MimeBeforeExtension ==
    Ran("detectAudioFormat") =>
       LET v == output[1].value
           m == LookedUpMime(input.mimeType)
           byExtension == getFormatFromFilename(input.filename)
       IN  /\ m \in MimeTableKeys =>
                 /\ v # <<>>
                 /\ v = MIME_TYPE_MAP(m)
                 /\ v[1] \in SUPPORTED_AUDIO_FORMATS
           /\ m \notin MimeTableKeys => v = byExtension
           /\ v = <<>> <=> (m \notin MimeTableKeys /\ byExtension = <<>>)

\* The filename without its final extension: a last '.'-segment that is
\* not empty.
Stem(filename) ==
    IF Len(filename) >= 2 /\ filename[Len(filename)] # ""
    THEN SubSeq(filename, 1, Len(filename) - 1)
    ELSE filename

\* C17: normalizeFilename returns the filename with its final extension (if
\* any) removed, followed by '.' and the format's canonical extension: the
\* format's name, except "mp3" for "mpeg"; applied a second time with the
\* same format it returns the same string.
C17_NormalizeFilename ==
    /\ Ran("normalizeFilename") =>
          output[1].value =
             Append(Stem(input.filename),
                    IF input.format = "mpeg" THEN "mp3" ELSE input.format)
    /\ Ran("normalizeFilename twice") =>
          /\ output[1].value = output[1].once
          /\ output[1].value[Len(output[1].value)] # "mpeg"

C17_Witness ==
    /\ Ran("normalizeFilename twice")
    /\ input.filename = <<"clip", "bad">>
    /\ input.format = "mpeg"
    /\ output[1].once = <<"clip", "mp3">>
    /\ output[1].value = <<"clip", "mp3">>

\* The (code, status) pair of each error kind.
PairOf(cls) ==
    CASE cls = "ValidationError" -> [status |-> 400, code |-> "VALIDATION_ERROR"]
      [] cls = "InvalidAudioFormatError" ->
            [status |-> 400, code |-> "INVALID_AUDIO_FORMAT"]
      [] cls = "FileTooLargeError" -> [status |-> 413, code |-> "FILE_TOO_LARGE"]
      [] cls = "MissingAudioError" -> [status |-> 400, code |-> "MISSING_AUDIO"]
      [] cls = "TranscriptionError" ->
            [status |-> 500, code |-> "TRANSCRIPTION_FAILED"]
      [] cls = "ProviderError" -> [status |-> 502, code |-> "PROVIDER_ERROR"]
      [] cls = "TimeoutError" -> [status |-> 504, code |-> "TIMEOUT"]

\* C18: every error kind has one (code, status) pair, whatever its message
\* and details, and the error handler answers it with exactly that pair;
\* an error that is no ApplicationError is answered (INTERNAL_ERROR, 500),
\* except a MulterError, answered (VALIDATION_ERROR, 400).
C18_FixedCodeAndStatus ==
    Ran("errorHandler") =>
       LET e == input.error
           answer == output[1].value
       IN  /\ e.cls \in ClassifiedErrors =>
                 /\ e.code = PairOf(e.cls).code
                 /\ e.statusCode = PairOf(e.cls).status
                 /\ answer = PairOf(e.cls)
           /\ (e.cls \notin ApplicationErrorClasses /\ e.name = "MulterError") =>
                 answer = [status |-> 400, code |-> "VALIDATION_ERROR"]
           /\ (e.cls \notin ApplicationErrorClasses /\ e.name # "MulterError") =>
                 answer = [status |-> 500, code |-> "INTERNAL_ERROR"]

C18_Witness ==
    /\ Ran("errorHandler")
    /\ input.error.name = "MulterError"
    /\ output[1].value = [status |-> 400, code |-> "VALIDATION_ERROR"]

\* C19: an exception of an attempt that is neither a ProviderError nor a
\* TimeoutError is treated as retryable (retried while fewer than 3
\* attempts were made) iff it is an Error whose message contains
\* ECONNRESET, ETIMEDOUT or ENOTFOUND; every other one, thrown values that
\* are no Error included, ends the invocation at that attempt and reaches
\* the caller as the same value, message included.
C19_TransientByMessage ==
    (Ran("callApiWithRetry")
     /\ input.error.cls \notin {"ProviderError", "TimeoutError"}) =>
       LET e == input.error
           decision == output[1].value
           transient ==
              /\ e.cls # "NotAnError"
              /\ \E code \in {"ECONNRESET", "ETIMEDOUT", "ENOTFOUND"} :
                    \E k \in 1..Len(e.message) : e.message[k] = code
       IN  /\ input.attempt < 3 => (decision.retry <=> transient)
           /\ ~transient => ~decision.retry
           /\ ~decision.retry =>
                 /\ decision.thrown = e
                 /\ decision.thrown.message = e.message

C19_Witness ==
    /\ Ran("callApiWithRetry")
    /\ input.error = NativeError("NotAnError", "", <<"read", "ECONNRESET">>)
    /\ input.attempt = 1
    /\ output[1].value = [retry |-> FALSE, thrown |-> input.error]

\* C20 as claimed: for every non-success response the ProviderError's
\* message is the upstream error.message when the body is JSON containing
\* it, else the raw body when it is not empty, else "HTTP <status>": for
\* every status, 429 included, and for JSON without error.message.
C20_MessageFromBody ==
    Ran("callApi") =>
       LET e == output[1].value
           b == input.body
       IN  /\ e.cls = "ProviderError"
           /\ e.message =
                 <<"Groq", "error:">> \o
                 (IF b.isJson /\ b.errorMessage # <<>> THEN b.errorMessage[1]
                  ELSE IF b.raw # <<>> THEN b.raw
                  ELSE <<"HTTP", ToString(input.status)>>)

\* C20 as amended: status 429 always carries "Rate limit exceeded"; for any
\* other non-success status the message is the upstream error.message when
\* the body is JSON containing it, "Unknown API error" when the body is
\* JSON (other than null) without it, else the raw body when it is not
\* empty, else "HTTP <status>".
C20_MessageFromBodyExcept429 ==
    Ran("callApi") =>
       LET e == output[1].value
           b == input.body
       IN  /\ e.cls = "ProviderError"
           /\ e.message =
                 <<"Groq", "error:">> \o
                 (IF input.status = 429 THEN <<"Rate", "limit", "exceeded">>
                  ELSE IF b.isJson /\ b.errorMessage # <<>> THEN b.errorMessage[1]
                  ELSE IF b.isJson /\ b.raw # <<"null">>
                  THEN <<"Unknown", "API", "error">>
                  ELSE IF b.raw # <<>> THEN b.raw
                  ELSE <<"HTTP", ToString(input.status)>>)

C20_Witness ==
    /\ Ran("callApi")
    /\ input.status = 401
    /\ input.body.raw = <<"{}">>
    /\ output[1].value.message = <<"Groq", "error:", "Unknown", "API", "error">>

\* C21: every attempt of an invocation builds the same payload from the
\* unchanged request: the file, the fixed model and response_format
\* verbose_json always; language iff the request's language is specified and
\* not "auto"; prompt iff the request's prompt is present and not empty;
\* temperature iff the request's temperature is defined (0 is sent); and the
\* payload of a retry equals that of attempt 1.
C21_SamePayloadEveryAttempt ==
    (request # <<>>) =>
       /\ request[1] = controller(httpRequest[1]).request
       /\ Len(outbound) = attempt
       /\ \A k \in 1..Len(outbound) :
             LET p == outbound[k]
                 r == request[1]
             IN  /\ p.file.length = r.audioBufferLength
                 /\ p.model = "whisper-large-v3"
                 /\ p.response_format = "verbose_json"
                 /\ (p.language # <<>>) <=>
                       (r.language # <<>> /\ r.language[1] # "auto")
                 /\ (p.language # <<>>) => p.language = r.language
                 /\ (p.prompt # <<>>) <=> (r.prompt # <<>> /\ r.prompt[1] # <<>>)
                 /\ (p.prompt # <<>>) => p.prompt = r.prompt
                 /\ p.temperature = r.temperature
                 /\ p = outbound[1]

C21_Witness ==
    /\ Len(outbound) = MAX_RETRIES
    /\ request[1].language = <<"auto">>
    /\ request[1].temperature = <<0>>
    /\ outbound[MAX_RETRIES].language = <<>>
    /\ outbound[MAX_RETRIES].temperature = <<0>>
    /\ httpRequest[1].prompt # <<>>
    /\ outbound[MAX_RETRIES].prompt = <<>>

\* C22: the timeout timer of an attempt is cleared on every exit path of the
\* attempt: whenever no attempt of the invocation is in flight (before it,
\* during a backoff, after the outcome is delivered) no timeout timer is
\* pending, and a pending timer is always that of the attempt in flight, so
\* the timer of attempt k cannot abort attempt k+1.
C22_TimerClearedOnEveryExit ==
    /\ (pc \in {"idle", "backoff", "done"}) => timeoutTimer = 0
    /\ (timeoutTimer # 0) => (timeoutTimer = attempt /\ pc = "fetch")
    /\ \A i \in 1..Len(settled) :
          /\ settled[i].n = i
          /\ timeoutTimer # settled[i].n

C22_Witness ==
    /\ pc = "backoff"
    /\ timeoutTimer = 0
    /\ Len(settled) = 2
    /\ settled[1].via = "fetchRejects"
    /\ settled[2].via = "abort"

\* C23: the per-attempt timeout bounds the whole attempt: as long as the
\* attempt has not produced its outcome (fetch is awaited, or the status
\* and headers have arrived and the body is being read) its timeout timer
\* is pending, so that the timeout elapsing aborts the call, and an aborted
\* attempt ends with TimeoutError.
C23_TimeoutBoundsWholeAttempt ==
    /\ (pc \in {"fetch", "body"}) => timeoutTimer = attempt
    /\ \A i \in 1..Len(settled) :
          settled[i].via = "abort" =>
             (settled[i].threw /\ settled[i].error[1].cls = "TimeoutError")

\* C24: every transcribe invocation eventually delivers exactly one outcome
\* to its caller, whatever the upstream does, timers being fair; the outcome
\* is delivered only after the last attempt has settled, and no attempt or
\* backoff starts after the delivery.
C24_EventuallyOneOutcome ==
    /\ [](Len(delivered) <= 1)
    /\ []((pc = "done") =>
             /\ Len(delivered) = 1
             /\ Len(settled) = Len(outbound)
             /\ inflight = 0 /\ timeoutTimer = 0 /\ delayTimer = 0)
    /\ (pc \in {"fetch", "body", "backoff"}) ~> (pc = "done")

\* C25: an upload to POST /api/transcribe whose file is larger than the
\* configured maximum size is answered with code FILE_TOO_LARGE and
\* status 413.
C25_OversizeAnswered413 ==
    (/\ httpRequest # <<>>
     /\ httpRequest[1].file # <<>>
     /\ httpRequest[1].file[1].size > maxFileSizeBytes
     /\ httpResponse # <<>>)
    => httpResponse[1] = [status |-> 413, code |-> "FILE_TOO_LARGE"]

\* C26: the validator and the transcription client agree on the format: when
\* validateAudioFile accepts the file with format F, every outbound payload
\* labels the file with getMimeTypeForFormat(F) and names it
\* normalizeFilename(filename, F).
C26_ClientAgreesWithValidator ==
    (request # <<>>) =>
       LET r == request[1]
           v == validateAudioFile(r.audioBufferLength, r.mimeType, r.filename,
                                  maxFileSizeBytes)
       IN  /\ v.valid
           /\ v.format[1] \in SUPPORTED_AUDIO_FORMATS
           /\ \A k \in 1..Len(outbound) :
                 /\ outbound[k].file.contentType = getMimeTypeForFormat(v.format[1])
                 /\ outbound[k].file.filename = normalizeFilename(r.filename, v.format[1])

C30_HookReleasesWhatItAcquires ==
    (hook.state \in {"idle", "error"}) =>
       /\ hook.streams = {}
       /\ hook.intervals = {}
       /\ hook.frames = {}


\* C28: each recorded blob is submitted for transcription at most once:
\* handleTranscribe is never invoked twice for the same blob, and every
\* invocation is for a blob that has just appeared, made from a render whose
\* appState is 'recording'.
C28_BlobSubmittedAtMostOnce ==
    (app # <<>>) =>
       /\ \A i, j \in DOMAIN app.invoked :
             (i # j) => app.invoked[i].blob # app.invoked[j].blob
       /\ \A i \in DOMAIN app.invoked :
             /\ app.invoked[i].appState = "recording"
             /\ app.invoked[i].fresh

\* Two recordings were made one after the other and each was handed to
\* handleTranscribe, the first of them sent to the server and answered.
C28_Witness ==
    /\ app # <<>>
    /\ Len(app.invoked) = 2
    /\ app.invoked[1].sent
    /\ app.invoked[1].recorderState = "idle"
    /\ app.transcription = 0
    /\ app.appState = "processing"
    /\ hook.audioBlob # <<>>

\* C29: no transcription request is in flight while the recorder is
\* requesting the microphone or recording, and handleTranscribe is never
\* started for a blob while the recorder state is 'requesting' or 'recording'.
C29_NoTranscriptionWhileRecording ==
    (app # <<>>) =>
       /\ (app.inflight # {}) => hook.state \notin {"requesting", "recording"}
       /\ \A i \in DOMAIN app.invoked :
             app.invoked[i].recorderState \notin {"requesting", "recording"}

====
